---------------------------- MODULE Spec2Model ----------------------------
(***************************************************************************)
(* Video-URL resolution in pressplaystupid-playlist-creator.               *)
(*                                                                         *)
(* Three resolvers live in the repository and are modelled side by side:   *)
(*   - resolveVideoUrl, the browser-side resolver (src/lib/video-resolver) *)
(*     together with the component's getEmbedUrl and navigateBrowser;      *)
(*   - the Next.js API handler pages/api/resolve.ts with its LRU cache;    *)
(*   - the Express route /api/videoresolver (server/index.ts).             *)
(*                                                                         *)
(* A JavaScript string is a sequence of tokens.  A token is a run of       *)
(* characters that the code never looks inside, except through the         *)
(* per-token tables below (StartsWithHttp, HostIncludes, EndsWithText,     *)
(* ToLowerTok, CharLen, EncodeTok).  Every string the model builds keeps   *)
(* the tokenisation discipline: a word token (all characters in            *)
(* [a-zA-Z0-9_-]) is followed only by a token that begins with a           *)
(* character outside that class, so a greedy character-class match ends    *)
(* on a token boundary.                                                    *)
(***************************************************************************)
EXTENDS Integers, Sequences, FiniteSets, TLC

VARIABLES
    program,   \* which of the three programs this behaviour is a run of
    input,     \* the URL string handed to the browser code / Express route
    last,      \* the last completed synchronous operation and its outcome
    calls,     \* the requests of the Next.js handler, one record per call
    cache,     \* the module-level LRU cache of pages/api/resolve.ts
    fetches,   \* number of network GETs issued so far, per cache key
    delivered, \* the payload each remote resource delivered last, if any
    dropped,   \* why entries left the cache so far: "expired", "evicted"
    ui         \* the state of the playlist component and of localStorage

vars == <<program, input, last, calls, cache, fetches, delivered, dropped, ui>>

-----------------------------------------------------------------------------
(* Bounds *)

NumCalls == 2          \* requests made to the Next.js handler

CacheMax == 1          \* stands for max: 500 entries of the LRU cache

TtlTicks == 1          \* stands for ttl: 5 minutes, in ticks of the clock

MaxItems == 3          \* items a playlist holds at most

MaxTime == 1           \* milliseconds Date.now() moves on by

-----------------------------------------------------------------------------
(* Tokens *)

IdLong == "dQw4w9WgXcQ"
IdShort == "abc12"

SchemeToks == {"https://", "http://", "ftp://"}

HostToks ==
    {"www.youtube.com", "youtu.be", "vimeo.com", "example.com",
     "www.twitch.tv", "www.dailymotion.com", "www.instagram.com",
     "www.tiktok.com", "httpbin.org", "player.vimeo.com",
     "player.twitch.tv", "soundcloud.com", "cdn.example.com"}

\* a free-text input with spaces: never a valid host
FreeText == "not a url"

ExtToks == {".mp4", ".webm", ".ogg", ".mov", ".avi", ".mkv", ".m4v", ".MP4"}

\* tokens made only of characters in [a-zA-Z0-9_-]
WordToks ==
    {"watch", "shorts", "videos", "video", "embed", "file", "page", "clip",
     "-", "_", "42", "123", "1", IdLong, IdShort, "x8abc", "title",
     "channels", "staff", "v2", "oembed", "view_video", "ph5f", "ftp",
     "http", "https"}

\* tokens made only of digits
DigitToks == {"42", "123", "1"}

IsWord(t) == t \in WordToks

IsDigits(t) == t \in DigitToks

\* number of characters of a word token (used by the {6,} quantifier)
CharLen(t) ==
    CASE t = IdLong -> 11
      [] t \in {"channels", "view_video"} -> 8
      [] t \in {"shorts", "videos", "oembed"} -> 6
      [] t \in {"watch", "video", "embed", "title", "staff", "x8abc", IdShort, "https"} -> 5
      [] t \in {"file", "page", "clip", "ph5f", "http"} -> 4
      [] t \in {"123", "ftp"} -> 3
      [] t \in {"42", "v2"} -> 2
      [] OTHER -> 1

\* String.prototype.toLowerCase, per token
ToLowerTok(t) ==
    CASE t = ".MP4" -> ".mp4"
      [] t = IdLong -> "dqw4w9wgxcq"
      [] OTHER -> t

\* s.startsWith('http') for the first token of s
StartsWithHttp(t) == t \in {"https://", "http://", "httpbin.org", "http", "https"}

\* hostname.includes(needle)
HostIncludes(h, needle) ==
    CASE needle = "youtube.com" -> h = "www.youtube.com"
      [] needle = "youtu.be" -> h = "youtu.be"
      [] needle = "vimeo.com" -> h \in {"vimeo.com", "player.vimeo.com"}
      [] needle = "instagram.com" -> h = "www.instagram.com"
      [] needle = "tiktok.com" -> h = "www.tiktok.com"
      [] needle = "twitch.tv" -> h \in {"www.twitch.tv", "player.twitch.tv"}
      [] needle = "dailymotion.com" -> h = "www.dailymotion.com"
      [] needle = "soundcloud.com" -> h = "soundcloud.com"
      [] OTHER -> FALSE     \* twitter.com, x.com: no such host among HostToks

\* the text of token t ends with the literal text (a regex literal prefix
\* such as youtube\.com may start in the middle of a token)
EndsWithText(t, text) ==
    CASE text = "youtube.com" -> t = "www.youtube.com"
      [] text = "youtu.be" -> t = "youtu.be"
      [] text = "vimeo.com" -> t \in {"vimeo.com", "player.vimeo.com"}
      [] text = "v=" -> t = "v="
      [] OTHER -> FALSE

-----------------------------------------------------------------------------
(* Sequence helpers *)

Min(S) == CHOOSE x \in S : \A y \in S : x <= y

Max(S) == CHOOSE x \in S : \A y \in S : x >= y

From(s, i) == SubSeq(s, i, Len(s))

Last(s) == s[Len(s)]

\* s has the tokens of pat at position i
MatchAt(s, i, pat) ==
    /\ i >= 1
    /\ i + Len(pat) - 1 <= Len(s)
    /\ \A k \in 1..Len(pat) : s[i + k - 1] = pat[k]

\* String.prototype.includes for a multi-token needle
Includes(s, pat) == \E i \in 1..Len(s) : MatchAt(s, i, pat)

\* the greedy match of [a-zA-Z0-9_-]* starting at position j
WordRun(s, j) ==
    LET ends == {k \in j..Len(s) : \A m \in j..k : IsWord(s[m])}
    IN  IF ends = {} THEN <<>> ELSE SubSeq(s, j, Max(ends))

\* the greedy match of \d* starting at position j
DigitRun(s, j) ==
    LET ends == {k \in j..Len(s) : \A m \in j..k : IsDigits(s[m])}
    IN  IF ends = {} THEN <<>> ELSE SubSeq(s, j, Max(ends))

RECURSIVE SumLen(_)
SumLen(s) == IF s = <<>> THEN 0 ELSE CharLen(Head(s)) + SumLen(Tail(s))

\* String.prototype.split(sep) for a one-token separator
RECURSIVE SplitTok(_, _)
SplitTok(s, sep) ==
    LET hits == {i \in 1..Len(s) : s[i] = sep}
    IN  IF hits = {} THEN <<s>>
        ELSE <<SubSeq(s, 1, Min(hits) - 1)>> \o SplitTok(From(s, Min(hits) + 1), sep)

\* String.prototype.split(sep) for a multi-token separator
RECURSIVE SplitPat(_, _)
SplitPat(s, pat) ==
    LET hits == {i \in 1..Len(s) : MatchAt(s, i, pat)}
    IN  IF hits = {} THEN <<s>>
        ELSE <<SubSeq(s, 1, Min(hits) - 1)>> \o SplitPat(From(s, Min(hits) + Len(pat)), pat)

-----------------------------------------------------------------------------
(* The WHATWG URL object, as far as the resolvers read it *)

NullV == <<"<null>">>        \* JavaScript null / undefined for string values

InvalidURL == [valid |-> FALSE, protocol |-> "", hostname |-> <<>>,
               pathname |-> <<>>, search |-> <<>>, origin |-> <<>>]

SchemeName(t) ==
    CASE t = "https://" -> "https"
      [] t = "http://" -> "http"
      [] OTHER -> "ftp"

ToLowerCase(s) == [i \in 1..Len(s) |-> ToLowerTok(s[i])]

\* tokens that end the authority / the path
IsPathStart(t) == t \in {"/", "?", "#"}

\* the input after its scheme, without the fragment: the fragment is not
\* part of host, path or query
WithoutFragment(s) ==
    LET hashes == {i \in 2..Len(s) : s[i] = "#"}
    IN  IF hashes = {} THEN Tail(s) ELSE SubSeq(s, 2, Min(hashes) - 1)

\* length of the authority at the start of rest
HostEnd(rest) ==
    LET stops == {i \in 1..Len(rest) : IsPathStart(rest[i])}
    IN  IF stops = {} THEN Len(rest) ELSE Min(stops) - 1

\* the path of the text that follows the authority
PathOf(after) ==
    LET qs == {i \in 1..Len(after) : after[i] = "?"}
    IN  IF qs = {} THEN after ELSE SubSeq(after, 1, Min(qs) - 1)

\* the query of the text that follows the authority, without its "?"
QueryOf(after) ==
    LET qs == {i \in 1..Len(after) : after[i] = "?"}
    IN  IF qs = {} THEN <<>> ELSE From(after, Min(qs) + 1)

\* the URL object for a scheme, a host and the text that follows the host:
\* an empty host or a forbidden host code point throws, the host is
\* lower-cased and an empty path becomes "/"
URLRecord(scheme, host, after) ==
    IF host = <<>> \/ (\E i \in 1..Len(host) : host[i] = FreeText)
    THEN InvalidURL
    ELSE [valid |-> TRUE,
          protocol |-> SchemeName(scheme),
          hostname |-> ToLowerCase(host),
          pathname |-> IF PathOf(after) = <<>> THEN <<"/">> ELSE PathOf(after),
          search |-> QueryOf(after),
          origin |-> <<scheme>> \o ToLowerCase(host)]

\* "https://ftp://h/p": the authority is "ftp:" (empty port), so the host
\* is "ftp" and the path starts with "//"
ParseAuthority(scheme, rest) ==
    IF rest # <<>> /\ Head(rest) \in SchemeToks
    THEN URLRecord(scheme, <<SchemeName(Head(rest))>>, <<"/", "/">> \o Tail(rest))
    ELSE URLRecord(scheme, SubSeq(rest, 1, HostEnd(rest)), From(rest, HostEnd(rest) + 1))

\* new URL(s): throws (valid = FALSE) without a scheme, with an empty host
\* or with a forbidden host code point
ParseURL(s) ==
    IF s = <<>> \/ Head(s) \notin SchemeToks THEN InvalidURL
    ELSE ParseAuthority(Head(s), WithoutFragment(s))

\* urlObj.searchParams.get(key): the value of the first pair named key
SearchGet(search, key) ==
    LET pairs == SplitTok(search, "&")
        hits == {i \in 1..Len(pairs) : pairs[i] # <<>> /\ pairs[i][1] = key}
    IN  IF hits = {} THEN NullV ELSE Tail(pairs[Min(hits)])

\* urlObj.searchParams.has(key)
SearchHas(search, key) ==
    LET pairs == SplitTok(search, "&")
    IN  \E i \in 1..Len(pairs) : pairs[i] # <<>> /\ pairs[i][1] = key

\* hostname.includes(needle) on a parsed hostname
HostnameIncludes(hostname, needle) ==
    \E i \in 1..Len(hostname) : HostIncludes(hostname[i], needle)

\* JavaScript truthiness of a string value
Truthy(v) == v # NullV /\ v # <<>>

\* a || b for string values
OrElse(a, b) == IF Truthy(a) THEN a ELSE b

\* url.startsWith('http')
StartsWithHttpStr(s) == s # <<>> /\ StartsWithHttp(Head(s))

-----------------------------------------------------------------------------
(* Regular expressions of the resolvers *)

\* /youtube\.com\/watch\?v=([a-zA-Z0-9_-]+)/ etc.: positions where a literal
\* that ends a token and a token pattern are followed by a non-empty word run
LiteralThenWord(s, text, pat) ==
    {i \in 1..Len(s) : /\ EndsWithText(s[i], text)
                       /\ MatchAt(s, i + 1, pat)
                       /\ WordRun(s, i + 1 + Len(pat)) # <<>>}

\* s.match(rx)[1] for the leftmost match, NullV when rx does not match
CaptureWord(s, text, pat) ==
    LET hits == LiteralThenWord(s, text, pat)
    IN  IF hits = {} THEN NullV ELSE WordRun(s, Min(hits) + 1 + Len(pat))

\* extractYouTubeId of lib/video-resolver.ts and of pages/api/resolve.ts
extractYouTubeId(url) ==
    LET m1 == CaptureWord(url, "youtube.com", <<"/", "watch", "?", "v=">>)
        m2 == CaptureWord(url, "youtu.be", <<"/">>)
        m3 == CaptureWord(url, "youtube.com", <<"/", "shorts", "/">>)
        u == ParseURL(url)
    IN  IF m1 # NullV THEN m1
        ELSE IF m2 # NullV THEN m2
        ELSE IF m3 # NullV THEN m3
        ELSE IF ~u.valid THEN NullV
        ELSE IF Truthy(SearchGet(u.search, "v=")) THEN SearchGet(u.search, "v=")
        ELSE NullV

\* end of the [^\/]+ run that starts at a and is followed by "/", 0 if none
SegmentEnd(s, a) ==
    LET ends == {e \in a..Len(s) : \A m \in a..e : s[m] # "/"}
    IN  IF ends = {} \/ Max(ends) + 1 > Len(s) THEN 0 ELSE Max(ends)

\* position of (\d+) for each alternative of the optional Vimeo prefix, in
\* the order of the alternation; 0 when the alternative does not match at j
VimeoAlternatives(s, j) ==
    LET one(head, tailPat) ==
            IF MatchAt(s, j, <<head, "/">>) /\ SegmentEnd(s, j + 2) # 0
               /\ MatchAt(s, SegmentEnd(s, j + 2) + 1, tailPat)
            THEN SegmentEnd(s, j + 2) + 1 + Len(tailPat) ELSE 0
    IN  << one("channels", <<"/">>),
           one("groups", <<"/", "videos", "/">>),
           one("album", <<"/", "video", "/">>),
           IF MatchAt(s, j, <<"video", "/">>) THEN j + 2 ELSE 0,
           j >>

\* the (\d+) position chosen for a match that starts its prefix at j, 0 if none
VimeoDigitsAt(s, j) ==
    LET alts == VimeoAlternatives(s, j)
        ok == {k \in 1..Len(alts) : alts[k] # 0 /\ DigitRun(s, alts[k]) # <<>>}
    IN  IF ok = {} THEN 0 ELSE alts[Min(ok)]

\* extractVimeoId of lib/video-resolver.ts
extractVimeoId(url) ==
    LET hits == {i \in 1..Len(url) : /\ EndsWithText(url[i], "vimeo.com")
                                     /\ MatchAt(url, i + 1, <<"/">>)
                                     /\ VimeoDigitsAt(url, i + 2) # 0}
    IN  IF hits = {} THEN NullV
        ELSE DigitRun(url, VimeoDigitsAt(url, Min(hits) + 2))

-----------------------------------------------------------------------------
(* Result envelopes *)

\* A JSON object is modelled by the set of keys it has (present) and the
\* value of each key; a key that is not present carries the filler NullV.
Envelope(ok, present, url, provider, title, description, thumbnail, embedUrl, embedHtml, media, error) ==
    [ok |-> ok, present |-> present, url |-> url, provider |-> provider,
     title |-> title, description |-> description, thumbnail |-> thumbnail,
     embedUrl |-> embedUrl, embedHtml |-> embedHtml, media |-> media,
     error |-> error]

\* a failure envelope that also echoes a data field: { ok: false, url, error }
FailureEchoingUrl(error) ==
    Envelope(FALSE, {"ok", "error", "url"}, NullV, "<null>", NullV, NullV, NullV,
             NullV, NullV, <<>>, error)

\* { ok: false, error }
Failure(error) ==
    Envelope(FALSE, {"ok", "error"}, NullV, "<null>", NullV, NullV, NullV,
             NullV, NullV, <<>>, error)

DataKeys == {"url", "provider", "title", "description", "thumbnail",
             "embed", "embed.url", "embed.html", "embed.allow", "media"}

\* the hostname of the page that embeds the player (window.location.hostname)
WindowHostname == "playlist.example.org"

YouTubeEmbed(id) ==
    <<"https://", "www.youtube.com", "/", "embed", "/">> \o id
        \o <<"?", "autoplay=", "1", "&", "enablejsapi=", "1">>

YouTubeThumbnail(id) ==
    <<"https://", "i.ytimg.com", "/", "vi", "/">> \o id \o <<"/", "hqdefault", ".jpg">>

VimeoEmbed(id) ==
    <<"https://", "player.vimeo.com", "/", "video", "/">> \o id \o <<"?", "autoplay=", "1">>

TwitchEmbed(id) ==
    <<"https://", "player.twitch.tv", "/", "?", "video=">> \o id
        \o <<"&", "parent=", WindowHostname>>

DailymotionEmbed(id) ==
    <<"https://", "www.dailymotion.com", "/", "embed", "/", "video", "/">> \o id

TikTokEmbed(url) ==
    <<"https://", "www.tiktok.com", "/", "embed", "/", "v2", "/">> \o url

InstagramEmbed(url) == url \o <<"/", "embed">>

-----------------------------------------------------------------------------
(* lib/video-resolver.ts: the browser-side resolver *)

VideoExtensions == {".mp4", ".webm", ".ogg", ".mov", ".avi", ".mkv", ".m4v"}

\* path.endsWith(ext) for some ext of exts
EndsWithExt(path, exts) == path # <<>> /\ Last(path) \in exts

\* isDirectVideoPath(url): parses its argument itself, [threw |-> TRUE] when
\* new URL(url) throws
isDirectVideoPath(url) ==
    LET u == ParseURL(url)
    IN  IF ~u.valid THEN [threw |-> TRUE, direct |-> FALSE]
        ELSE [threw |-> FALSE,
              direct |-> EndsWithExt(ToLowerCase(u.pathname), VideoExtensions)]

\* pathname.split('/').pop()
LastSegment(pathname) == Last(SplitTok(pathname, "/"))

\* pathname.split('/video/')[1]?.split('_')[0], NullV when undefined
DailymotionId(pathname) ==
    LET parts == SplitPat(pathname, <<"/", "video", "/">>)
    IN  IF Len(parts) < 2 THEN NullV ELSE Head(SplitTok(parts[2], "_"))

ClientKeys == {"ok", "url", "provider", "title", "embed", "embed.url"}

ClientSuccess(url, provider, title, thumbnail, embedUrl) ==
    Envelope(TRUE,
             ClientKeys \cup (IF thumbnail = NullV THEN {} ELSE {"thumbnail"}),
             url, provider, title, NullV, thumbnail, embedUrl, NullV, <<>>, "")

\* url.startsWith('http') ? url : `https://${url}`
NormalizeUrl(url) == IF StartsWithHttpStr(url) THEN url ELSE <<"https://">> \o url

resolveVideoUrl(url) ==
    LET urlObj == ParseURL(NormalizeUrl(url))
        hostname == urlObj.hostname
        direct == isDirectVideoPath(url)
        youtubeId == extractYouTubeId(url)
        vimeoId == extractVimeoId(url)
        twitchId == LastSegment(urlObj.pathname)
        dmId == DailymotionId(urlObj.pathname)
    IN  IF ~urlObj.valid \/ direct.threw THEN Failure("Invalid URL")
        ELSE IF direct.direct THEN
            Envelope(TRUE, ClientKeys \cup {"media"}, url, "direct",
                     OrElse(LastSegment(urlObj.pathname), <<"Direct Video">>),
                     NullV, NullV, url, NullV, <<url>>, "")
        ELSE IF youtubeId # NullV THEN
            ClientSuccess(url, "youtube", <<"YouTube Video">>,
                          YouTubeThumbnail(youtubeId), YouTubeEmbed(youtubeId))
        ELSE IF vimeoId # NullV THEN
            ClientSuccess(url, "vimeo", <<"Vimeo Video">>, NullV, VimeoEmbed(vimeoId))
        ELSE IF HostnameIncludes(hostname, "instagram.com") THEN
            ClientSuccess(url, "instagram", <<"Instagram Video">>, NullV, InstagramEmbed(url))
        ELSE IF HostnameIncludes(hostname, "tiktok.com") THEN
            ClientSuccess(url, "tiktok", <<"TikTok Video">>, NullV, TikTokEmbed(url))
        ELSE IF /\ HostnameIncludes(hostname, "twitch.tv")
                /\ Includes(urlObj.pathname, <<"/", "videos", "/">>)
                /\ Truthy(twitchId) THEN
            ClientSuccess(url, "twitch", <<"Twitch Video">>, NullV, TwitchEmbed(twitchId))
        ELSE IF HostnameIncludes(hostname, "dailymotion.com") /\ Truthy(dmId) THEN
            ClientSuccess(url, "dailymotion", <<"Dailymotion Video">>, NullV,
                          DailymotionEmbed(dmId))
        ELSE
            ClientSuccess(url, "unknown", <<"Video from ">> \o hostname, NullV, url)

-----------------------------------------------------------------------------
(* components/PlaylistCreator: getEmbedUrl and navigateBrowser *)

\* part.includes('-')
HasHyphen(part) == \E i \in 1..Len(part) : part[i] = "-"

\* videoPath.substring(videoPath.lastIndexOf('-') + 1)
AfterLastHyphen(part) == From(part, Max({i \in 1..Len(part) : part[i] = "-"}) + 1)

\* the /videos/ rewrite: NullV when the rule does not apply
SiteVideosRewrite(urlObj) ==
    LET pathParts == SplitTok(urlObj.pathname, "/")
        hits == {i \in 1..Len(pathParts) : HasHyphen(pathParts[i])}
    IN  IF Includes(urlObj.pathname, <<"/", "videos", "/">>) /\ hits # {}
        THEN urlObj.origin \o <<"/", "embed", "/">> \o AfterLastHyphen(pathParts[Min(hits)])
        ELSE NullV

\* the view_video.php?viewkey= rewrite: NullV when the rule does not apply
SiteViewkeyRewrite(urlObj) ==
    IF /\ Includes(urlObj.pathname, <<"/", "view_video", ".php">>)
       /\ SearchHas(urlObj.search, "viewkey=")
       /\ Truthy(SearchGet(urlObj.search, "viewkey="))
    THEN urlObj.origin \o <<"/", "embed", "/">> \o SearchGet(urlObj.search, "viewkey=")
    ELSE NullV

\* getEmbedUrl(url): [threw |-> TRUE] when new URL throws
getEmbedUrl(url) ==
    LET urlObj == ParseURL(NormalizeUrl(url))
        hostname == urlObj.hostname
        pathname == ToLowerCase(urlObj.pathname)
        ret(v) == [threw |-> FALSE, value |-> v]
    IN  IF ~urlObj.valid THEN [threw |-> TRUE, value |-> NullV]
        ELSE IF EndsWithExt(pathname, VideoExtensions) THEN ret(url)
        ELSE IF SiteVideosRewrite(urlObj) # NullV THEN ret(SiteVideosRewrite(urlObj))
        ELSE IF SiteViewkeyRewrite(urlObj) # NullV THEN ret(SiteViewkeyRewrite(urlObj))
        ELSE IF HostnameIncludes(hostname, "youtube.com") \/ HostnameIncludes(hostname, "youtu.be") THEN
            ret(YouTubeEmbed(IF HostnameIncludes(hostname, "youtu.be")
                             THEN Tail(urlObj.pathname)
                             ELSE OrElse(SearchGet(urlObj.search, "v="), <<>>)))
        ELSE IF HostnameIncludes(hostname, "vimeo.com") THEN
            ret(VimeoEmbed(LastSegment(urlObj.pathname)))
        ELSE IF HostnameIncludes(hostname, "instagram.com") THEN ret(InstagramEmbed(url))
        ELSE IF HostnameIncludes(hostname, "tiktok.com") THEN ret(TikTokEmbed(url))
        ELSE IF /\ HostnameIncludes(hostname, "twitch.tv")
                /\ Includes(urlObj.pathname, <<"/", "videos", "/">>) THEN
            ret(TwitchEmbed(LastSegment(urlObj.pathname)))
        ELSE IF /\ HostnameIncludes(hostname, "dailymotion.com")
                /\ Truthy(DailymotionId(urlObj.pathname)) THEN
            ret(DailymotionEmbed(DailymotionId(urlObj.pathname)))
        ELSE ret(url)

\* formattedUrl.match(/^https?:\/\//)
HasHttpScheme(s) == s # <<>> /\ Head(s) \in {"https://", "http://"}

\* navigateBrowser(url): the value handed to setBrowserUrl
navigateBrowser(url) ==
    IF url # <<>> /\ ~HasHttpScheme(url) THEN <<"https://">> \o url ELSE url

-----------------------------------------------------------------------------
(* What a remote host can answer *)

MetaKeys == {"og:video", "og:video:url", "twitter:player", "og:title",
             "og:description", "og:image", "og:image:url"}

NoMeta == [k \in MetaKeys |-> NullV]

OgVideoUrl == <<"https://", "cdn.example.com", "/", "embed", "/", "42">>
PlayerUrl == <<"https://", "cdn.example.com", "/", "player", "/", "42">>
FrameUrl == <<"https://", "cdn.example.com", "/", "frame", "/", "42">>
FrameUrl2 == <<"https://", "cdn.example.com", "/", "frame", "/", "123">>
ClipMp4 == <<"https://", "cdn.example.com", "/", "clip", ".mp4">>
ClipAvi == <<"https://", "cdn.example.com", "/", "clip", ".avi">>
PosterJpg == <<"https://", "cdn.example.com", "/", "poster", ".jpg">>

\* an HTML document: <meta property=..>, <meta name=..>, <title>, the src
\* attributes of its iframes and of its video / video source elements, in
\* document order; empty tells whether the body is the empty string
HtmlDoc(empty, prop, name, title, iframes, videos) ==
    [empty |-> empty, prop |-> prop, name |-> name, title |-> title,
     iframes |-> iframes, videos |-> videos]

HtmlNames == {"html:empty", "html:plain", "html:ogvideo", "html:twitter",
              "html:iframes", "html:video", "html:avi", "html:all"}

HtmlOf(n) ==
    CASE n = "html:empty" -> HtmlDoc(TRUE, NoMeta, NoMeta, <<>>, <<>>, <<>>)
      [] n = "html:plain" ->
           HtmlDoc(FALSE, [NoMeta EXCEPT !["og:title"] = <<"A page">>,
                                         !["og:image"] = PosterJpg],
                   NoMeta, <<"Plain">>, <<>>, <<>>)
      [] n = "html:ogvideo" ->
           HtmlDoc(FALSE, [NoMeta EXCEPT !["og:video"] = OgVideoUrl], NoMeta,
                   <<"With og:video">>, <<>>, <<>>)
      [] n = "html:twitter" ->
           HtmlDoc(FALSE, NoMeta, [NoMeta EXCEPT !["twitter:player"] = PlayerUrl],
                   <<"With twitter:player">>, <<FrameUrl>>, <<>>)
      [] n = "html:iframes" ->
           HtmlDoc(FALSE, NoMeta, NoMeta, <<>>, <<FrameUrl, FrameUrl2>>, <<>>)
      [] n = "html:video" ->
           HtmlDoc(FALSE, NoMeta, NoMeta, <<"Clip">>, <<>>, <<PosterJpg, ClipMp4>>)
      [] n = "html:avi" ->
           HtmlDoc(FALSE, NoMeta, NoMeta, <<"Clip">>, <<>>, <<ClipAvi>>)
      [] OTHER ->
           HtmlDoc(FALSE, [NoMeta EXCEPT !["og:video:url"] = OgVideoUrl,
                                         !["og:description"] = <<"All of them">>],
                   [NoMeta EXCEPT !["twitter:player"] = PlayerUrl],
                   <<"All">>, <<FrameUrl>>, <<ClipMp4>>)

\* an oEmbed answer: html is the html field, iframe the src of the first
\* iframe inside it; empty tells whether the body is the empty string
OEmbedDoc(empty, html, iframe, title, thumbnail_url, provider_name) ==
    [empty |-> empty, html |-> html, iframe |-> iframe, title |-> title,
     thumbnail_url |-> thumbnail_url, provider_name |-> provider_name]

JsonNames == {"json:empty", "json:text", "json:full", "json:nohtml", "json:quote"}

JsonOf(n) ==
    CASE n = "json:empty" -> OEmbedDoc(TRUE, NullV, NullV, NullV, NullV, "")
      \* a body that is not JSON: axios hands it over as a string
      [] n = "json:text" -> OEmbedDoc(FALSE, NullV, NullV, NullV, NullV, "")
      [] n = "json:full" ->
           OEmbedDoc(FALSE, <<"<iframe src=", PlayerUrl[2], ">">>, PlayerUrl,
                     <<"A clip">>, PosterJpg, "Vimeo")
      [] n = "json:nohtml" ->
           OEmbedDoc(FALSE, NullV, NullV, <<"A photo">>, PosterJpg, "Vimeo")
      [] OTHER ->
           OEmbedDoc(FALSE, <<"<blockquote>">>, NullV, NullV, NullV, "")

\* the request failed: timeout, connection error or non-2xx status
FetchFailed == "fetch:failed"

-----------------------------------------------------------------------------
(* server/index.ts: the Express route /api/videoresolver *)

\* url.match(/\.(mp4|webm|ogg|mov|m4v)$/)
ExpressDirectMatch(url) ==
    url # <<>> /\ Last(url) \in {".mp4", ".webm", ".ogg", ".mov", ".m4v"}

\* url.match(/(?:v=|youtu\.be\/)([a-zA-Z0-9_-]{6,})/)[1], NullV without match
ExpressYouTubeMatch(url) ==
    LET start(i) == IF EndsWithText(url[i], "v=") THEN i + 1
                    ELSE IF EndsWithText(url[i], "youtu.be") /\ MatchAt(url, i + 1, <<"/">>)
                    THEN i + 2 ELSE 0
        hits == {i \in 1..Len(url) : start(i) # 0 /\ SumLen(WordRun(url, start(i))) >= 6}
    IN  IF hits = {} THEN NullV ELSE WordRun(url, start(Min(hits)))

\* axios can issue the GET only for an absolute http(s) URL
IsHttpTarget(url) == ParseURL(url).valid /\ ParseURL(url).protocol \in {"http", "https"}

\* the answers axios.get(url) can produce in the scrape fallback
ExpressResponses(url) ==
    IF IsHttpTarget(url) THEN HtmlNames \cup {FetchFailed} ELSE {FetchFailed}

\* the whole route for query parameter url, given the answer resp of the
\* remote host to the GET of the scrape fallback (if it gets that far);
\* net counts the GETs issued
videoresolver(url, resp) ==
    LET ytId == ExpressYouTubeMatch(url)
        doc == HtmlOf(resp)
        out(r, n) == [result |-> r, net |-> n]
    IN  IF url = <<>> THEN out(Failure("Missing ?url="), 0)
        ELSE IF ExpressDirectMatch(url) THEN
            out(Envelope(TRUE, {"ok", "url", "provider", "embed", "embed.url", "media"},
                         url, "direct", NullV, NullV, NullV, url, NullV, <<url>>, ""), 0)
        ELSE IF ytId # NullV THEN
            out(Envelope(TRUE, {"ok", "url", "provider", "title", "thumbnail",
                                "embed", "embed.url"},
                         url, "youtube", <<"YouTube Video">>, NullV,
                         YouTubeThumbnail(ytId), YouTubeEmbed(ytId), NullV, <<>>, ""), 0)
        ELSE IF resp = FetchFailed THEN
            out(Failure("Request failed"), IF IsHttpTarget(url) THEN 1 ELSE 0)
        ELSE
            out(Envelope(TRUE, {"ok", "url", "provider", "title", "thumbnail",
                                "embed", "embed.url"},
                         url, "parsed", OrElse(doc.title, NullV), NullV,
                         OrElse(doc.prop["og:image"], NullV),
                         OrElse(doc.prop["og:video"], NullV), NullV, <<>>, ""), 1)

-----------------------------------------------------------------------------
(* pages/api/resolve.ts: helpers of the Next.js handler *)

\* isHttpUrl(u)
isHttpUrl(u) == ParseURL(u).valid /\ ParseURL(u).protocol \in {"http", "https"}

HandlerExtensions == {".mp4", ".webm", ".ogg", ".mov", ".m4v"}

\* isDirectVideoPath(path) of resolve.ts
isDirectVideoPathServer(path) == EndsWithExt(ToLowerCase(path), HandlerExtensions)

\* encodeURIComponent, per token: unreserved characters stay, the rest is
\* percent-encoded
EncodeTok(t) ==
    CASE t = "https://" -> "https%3A%2F%2F"
      [] t = "http://" -> "http%3A%2F%2F"
      [] t = "ftp://" -> "ftp%3A%2F%2F"
      [] t = "/" -> "%2F"
      [] t = "?" -> "%3F"
      [] t = "&" -> "%26"
      [] t = "#" -> "%23"
      [] t = "v=" -> "v%3D"
      [] t = "u=" -> "u%3D"
      [] t = "f=" -> "f%3D"
      [] t = "viewkey=" -> "viewkey%3D"
      [] t = "url=" -> "url%3D"
      [] t = "https%3A%2F%2F" -> "https%253A%252F%252F"
      [] t = "%2F" -> "%252F"
      [] t = FreeText -> "not%20a%20url"
      [] OTHER -> t

encodeURIComponent(s) == [i \in 1..Len(s) |-> EncodeTok(s[i])]

\* knownOEmbed(url): the endpoint URL, NullV when the host has none
knownOEmbed(url) ==
    LET h == ParseURL(url).hostname
        e == encodeURIComponent(url)
    IN  IF HostnameIncludes(h, "youtube.com") \/ h = <<"youtu.be">> THEN
            <<"https://", "www.youtube.com", "/", "oembed", "?", "url=">> \o e
                \o <<"&", "format=", "json">>
        ELSE IF HostnameIncludes(h, "vimeo.com") THEN
            <<"https://", "vimeo.com", "/", "api", "/", "oembed", ".json", "?", "url=">> \o e
        ELSE IF HostnameIncludes(h, "dailymotion.com") THEN
            <<"https://", "www.dailymotion.com", "/", "services", "/", "oembed", "?", "url=">> \o e
        ELSE IF HostnameIncludes(h, "soundcloud.com") THEN
            <<"https://", "soundcloud.com", "/", "oembed", "?", "format=", "json", "&", "url=">> \o e
        ELSE IF HostnameIncludes(h, "tiktok.com") THEN
            <<"https://", "www.tiktok.com", "/", "oembed", "?", "url=">> \o e
        ELSE IF HostnameIncludes(h, "twitter.com") \/ HostnameIncludes(h, "x.com") THEN
            <<"https://", "publish.twitter.com", "/", "oembed", "?", "url=">> \o e
        ELSE NullV

\* new URL(src, baseUrl).toString() for an absolute src or a src that
\* starts with "/"; [threw |-> TRUE] otherwise
AbsoluteUrl(src, baseUrl) ==
    LET u == ParseURL(src)
        b == ParseURL(baseUrl)
        ser(x) == x.origin \o x.pathname
                    \o (IF x.search = <<>> THEN <<>> ELSE <<"?">> \o x.search)
    IN  IF u.valid THEN [threw |-> FALSE, value |-> ser(u)]
        ELSE IF src # <<>> /\ Head(src) = "/" /\ b.valid
        THEN [threw |-> FALSE, value |-> b.origin \o src]
        ELSE [threw |-> TRUE, value |-> NullV]

\* try { push(new URL(src, baseUrl).toString()) } catch {}: abs is the
\* outcome of the URL constructor
Pushed(abs, extsOnly) ==
    IF abs.threw \/ (extsOnly /\ ~isDirectVideoPathServer(abs.value))
    THEN <<>> ELSE <<abs.value>>

\* the absolute URLs pushed for the src attributes srcs, in document order
RECURSIVE Collect(_, _, _)
Collect(srcs, baseUrl, extsOnly) ==
    IF srcs = <<>> THEN <<>>
    ELSE (IF Truthy(Head(srcs))
          THEN Pushed(AbsoluteUrl(Head(srcs), baseUrl), extsOnly) ELSE <<>>)
         \o Collect(Tail(srcs), baseUrl, extsOnly)

\* parseForEmbeds($, baseUrl)
parseForEmbeds(doc, baseUrl) ==
    LET meta(p) == OrElse(doc.prop[p], doc.name[p])
        ogVideo == OrElse(meta("og:video"), meta("og:video:url"))
        twitterPlayer == meta("twitter:player")
        iframes == Collect(doc.iframes, baseUrl, FALSE)
        firstFrame == IF iframes = <<>> THEN NullV ELSE iframes[1]
    IN  [title |-> OrElse(meta("og:title"), doc.title),
         description |-> OrElse(meta("og:description"), NullV),
         thumbnail |-> OrElse(meta("og:image"), OrElse(doc.prop["og:image:url"], NullV)),
         embedUrl |-> OrElse(ogVideo, OrElse(twitterPlayer, OrElse(firstFrame, NullV))),
         videos |-> Collect(doc.videos, baseUrl, TRUE)]

ShapeKeys == {"ok", "url", "provider", "title", "description", "thumbnail",
              "embed", "embed.url", "embed.html", "embed.allow", "media"}

\* resultShape(input): every key is set, a falsy value becomes null
resultShape(url, provider, title, description, thumbnail, embedUrl, html, media) ==
    Envelope(TRUE, ShapeKeys, OrElse(url, NullV),
             IF provider = "" THEN "<null>" ELSE provider,
             OrElse(title, NullV), OrElse(description, NullV),
             OrElse(thumbnail, NullV), OrElse(embedUrl, NullV),
             OrElse(html, NullV), media, "")

-----------------------------------------------------------------------------
(* Inputs *)

InputSchemes == {<<>>, <<"https://">>, <<"http://">>, <<"ftp://">>}

InputHosts ==
    {<<"www.youtube.com">>, <<"youtu.be">>, <<"vimeo.com">>, <<"example.com">>,
     <<"www.twitch.tv">>, <<"www.dailymotion.com">>, <<"www.instagram.com">>,
     <<"www.tiktok.com">>, <<"httpbin.org">>, <<FreeText>>}

VideoIds == {IdLong, IdShort}

InputPaths ==
    {<<>>, <<"/", "watch">>, <<"/", "123">>, <<"/", "channels", "/", "staff", "/", "123">>,
     <<"/", "video", "/", "x8abc", "_", "title">>, <<"/", "videos", "/", "123">>,
     <<"/", "videos", "/", "clip", "-", "42">>,
     <<"/", "videos", "/", "title", "-", "clip", "-", "42">>,
     <<"/", "title", "-", "x8abc", "/", "videos", "/", "clip", "-", "42">>,
     <<"/", "file", ".mp4">>,
     <<"/", "file", ".MP4">>, <<"/", "file", ".avi">>,
     <<"/", "view_video", ".php">>, <<"/", "page">>}
    \cup {<<"/", id>> : id \in VideoIds}
    \cup {<<"/", "shorts", "/", id>> : id \in VideoIds}

InputQueries ==
    {<<>>, <<"?", "viewkey=", "ph5f">>,
     <<"?", "u=", "www.youtube.com", "/", "watch", "?", "v=", IdLong>>,
     <<"?", "f=", "clip", ".mp4">>}
    \cup {<<"?", "v=", id>> : id \in VideoIds}

\* the strings a user or a caller can hand to a resolver
Inputs ==
    {<<>>} \cup {s \o h \o p \o q : s \in InputSchemes, h \in InputHosts,
                                    p \in InputPaths, q \in InputQueries}

\* the ?url= values sent to the Next.js handler
Targets ==
    {<<"https://", "example.com", "/", "file", ".mp4">>,
     <<"https://", "example.com", "/", "file", ".avi">>,
     <<"https://", "example.com", "/", "page">>,
     <<"https://", "vimeo.com", "/", "123">>,
     <<"https://", "www.youtube.com", "/", "watch", "?", "v=", IdLong>>,
     <<"https://", "www.youtube.com", "/", "shorts", "/", IdLong>>,
     <<"https://", "youtu.be", "/", IdLong>>,
     <<"ftp://", "example.com", "/", "file", ".mp4">>,
     <<"example.com", "/", "page">>,
     <<FreeText>>,
     \* the URL of an oEmbed endpoint, asked for as a page
     knownOEmbed(<<"https://", "vimeo.com", "/", "123">>)}

-----------------------------------------------------------------------------
(* pages/api/resolve.ts: cache and handler *)

Calls == 1..NumCalls

\* a key for JSON answers that lacks a prefix of its own
JsonKeyLikeHtml(url) == <<"html:">> \o url

\* `json:${url}`
JsonKey(url) == <<"json:">> \o url

HtmlKey(url) == <<"html:">> \o url

\* what the handler can fetch: the layer that fetches it and its URL
Resources ==
    {<<"html", t>> : t \in {x \in Targets : isHttpUrl(x)}}
    \cup {<<"json", knownOEmbed(t)>> : t \in {x \in Targets : isHttpUrl(x) /\ knownOEmbed(x) # NullV}}

\* the cache key under which fetchJson / fetchHtml keep resource f
KeyOf(f) == IF f[1] = "json" THEN JsonKey(f[2]) ELSE HtmlKey(f[2])

CacheKeys == {KeyOf(f) : f \in Resources}

NoEntry == "none"

\* new LRU({ max, ttl }): the value of each key, the ticks since it was set
\* and the keys it holds, least recently used first
EmptyCache ==
    [val |-> [k \in CacheKeys |-> NoEntry],
     age |-> [k \in CacheKeys |-> 0],
     order |-> <<>>]

Without(order, k) == SelectSeq(order, LAMBDA x : x # k)

\* a cache built without the ttl option: no entry ever goes stale
NeverStale(ca, k) == FALSE

\* the entry of k is older than the time-to-live
IsStale(ca, k) == ca.age[k] > TtlTicks

\* cache.delete(k)
LruDelete(ca, k) ==
    [val |-> [ca.val EXCEPT ![k] = NoEntry],
     age |-> [ca.age EXCEPT ![k] = 0],
     order |-> Without(ca.order, k)]

\* the value cache.get(k) returns: NoEntry (undefined) for a key that is
\* not held or whose entry is stale
LruValue(ca, k) ==
    IF ca.val[k] # NoEntry /\ ~IsStale(ca, k) THEN ca.val[k] ELSE NoEntry

\* the cache after cache.get(k): a stale entry is deleted, a live one
\* becomes the most recently used; its age is not refreshed
LruGet(ca, k) ==
    IF ca.val[k] = NoEntry THEN ca
    ELSE IF IsStale(ca, k) THEN LruDelete(ca, k)
    ELSE [ca EXCEPT !.order = Append(Without(@, k), k)]

\* the cache with k set to v, before the size limit is applied
Placed(ca, k, v) ==
    [val |-> [ca.val EXCEPT ![k] = v],
     age |-> [ca.age EXCEPT ![k] = 0],
     order |-> Append(Without(ca.order, k), k)]

\* the size limit: the least recently used entry goes on overflow
Evicted(ca) == IF Len(ca.order) > CacheMax THEN LruDelete(ca, Head(ca.order)) ELSE ca

\* the cache after cache.set(k, v)
LruSet(ca, k, v) == Evicted(Placed(ca, k, v))

\* the body of payload n is the empty string, which is falsy
IsEmptyBody(n) ==
    IF n \in JsonNames THEN JsonOf(n).empty
    ELSE IF n \in HtmlNames THEN HtmlOf(n).empty ELSE FALSE

\* const cached = cache.get(key); if (cached) ...
CacheHit(c, key) == LruValue(c, key) # NoEntry /\ ~IsEmptyBody(LruValue(c, key))

\* cache.get(k) as a step: the cache changes as LruGet says
CacheLookup(k) ==
    /\ cache' = LruGet(cache, k)
    /\ dropped' = IF cache.val[k] # NoEntry /\ IsStale(cache, k)
                  THEN dropped \cup {"expired"} ELSE dropped

\* cache.set(k, n) as a step, for the payload n that resource f delivered
CacheStore(f, n) ==
    /\ cache' = LruSet(cache, KeyOf(f), n)
    /\ dropped' = IF Len(Placed(cache, KeyOf(f), n).order) > CacheMax
                  THEN dropped \cup {"evicted"} ELSE dropped
    /\ delivered' = [delivered EXCEPT ![f] = n]

NoResult == Failure("<pending>")

\* a request to the handler: where it stands, its ?url=, its response, the
\* GETs it issued and, in order, what each fetchJson / fetchHtml it awaited
\* gave it (a payload from the network or the cache, or a failure)
IdleCall == [pc |-> "idle", target |-> <<>>, result |-> NoResult, net |-> 0, seen |-> <<>>]

\* what a fetch of layer ("json" or "html") gave: payload n, from the cache
\* entry of age ticks (age -1: from the network)
Got(layer, n, age) == [layer |-> layer, got |-> n, age |-> age]

\* the call after its fetch of layer gave it n
Saw(call, layer, n, age) == Append(call.seen, Got(layer, n, age))

DoneCall(call, target, result, seen) ==
    [pc |-> "done", target |-> target, result |-> result, net |-> call.net, seen |-> seen]

\* the response built from the oEmbed answer named n
OEmbedResult(target, n) ==
    LET data == JsonOf(n)
    IN  resultShape(target,
                    IF data.provider_name = "" THEN "oembed" ELSE data.provider_name,
                    data.title, NullV, data.thumbnail_url,
                    OrElse(data.iframe, NullV), OrElse(data.html, NullV), <<>>)

\* step 4 of the handler: the response built from the parse of a page
ShapeParsed(target, parsed) ==
    IF ~Truthy(parsed.embedUrl) /\ Len(parsed.videos) = 0
    THEN Failure("No embeddable media found")
    ELSE resultShape(target, "parsed", parsed.title, parsed.description,
                     parsed.thumbnail, parsed.embedUrl, NullV, parsed.videos)

\* the response built from the page named n
ParsedResult(target, n) == ShapeParsed(target, parseForEmbeds(HtmlOf(n), target))

\* steps 1 and 2: the answer given without any await, NoResult if none
ImmediateResult(target) ==
    LET u == ParseURL(target)
        ytId == extractYouTubeId(target)
    IN  IF ~isHttpUrl(target) THEN Failure("Invalid or missing ?url=")
        ELSE IF isDirectVideoPathServer(u.pathname) THEN
            resultShape(target, "direct", LastSegment(u.pathname), NullV, NullV,
                        NullV, NullV, <<target>>)
        ELSE IF ytId # NullV THEN
            resultShape(target, "youtube", <<"YouTube Video (">> \o ytId \o <<")">>,
                        NullV, YouTubeThumbnail(ytId), YouTubeEmbed(ytId), NullV, <<>>)
        ELSE NoResult

\* fetchHtml(target) up to its await: served from the cache, or a GET is
\* issued and the call waits for the answer
BeginFetchHtml(c, target, seen) ==
    LET k == HtmlKey(target)
    IN  /\ CacheLookup(k)
        /\ IF CacheHit(cache, k)
           THEN /\ calls' = [calls EXCEPT ![c] =
                               DoneCall(@, target, ParsedResult(target, cache.val[k]),
                                        Append(seen, Got("html", cache.val[k], cache.age[k])))]
                /\ UNCHANGED fetches
           ELSE /\ calls' = [calls EXCEPT ![c] = [pc |-> "html", target |-> target,
                                                  result |-> NoResult, net |-> @.net + 1,
                                                  seen |-> seen]]
                /\ fetches' = [fetches EXCEPT ![k] = @ + 1]
        /\ UNCHANGED delivered

\* fetchJson(oembedUrl) up to its await, likewise
BeginFetchJson(c, target) ==
    LET k == JsonKey(knownOEmbed(target))
    IN  /\ CacheLookup(k)
        /\ IF CacheHit(cache, k)
           THEN /\ calls' = [calls EXCEPT ![c] =
                               DoneCall(@, target, OEmbedResult(target, cache.val[k]),
                                        Saw(@, "json", cache.val[k], cache.age[k]))]
                /\ UNCHANGED fetches
           ELSE /\ calls' = [calls EXCEPT ![c] = [pc |-> "json", target |-> target,
                                                  result |-> NoResult, net |-> @.net + 1,
                                                  seen |-> @.seen]]
                /\ fetches' = [fetches EXCEPT ![k] = @ + 1]
        /\ UNCHANGED delivered

\* handler(req, res) from its start to the first await or to its response
HandlerRequest(c, target) ==
    /\ program = "next"
    /\ calls[c].pc = "idle"
    /\ IF ImmediateResult(target) # NoResult
       THEN /\ calls' = [calls EXCEPT ![c] = DoneCall(@, target, ImmediateResult(target), <<>>)]
            /\ UNCHANGED <<cache, fetches, delivered, dropped>>
       ELSE IF knownOEmbed(target) # NullV
       THEN BeginFetchJson(c, target)
       ELSE BeginFetchHtml(c, target, <<>>)
    /\ UNCHANGED <<ui, program, input, last>>

\* the GET of fetchJson completes: the answer is cached and shaped
HandlerJsonArrives(c, n) ==
    /\ program = "next"
    /\ calls[c].pc = "json"
    /\ n \in JsonNames
    /\ CacheStore(<<"json", knownOEmbed(calls[c].target)>>, n)
    /\ calls' = [calls EXCEPT ![c] = DoneCall(@, @.target, OEmbedResult(@.target, n),
                                              Saw(@, "json", n, -1))]
    /\ UNCHANGED <<ui, program, input, last, fetches>>

\* the GET of fetchJson fails: the inner catch ignores it and the handler
\* goes on with fetchHtml
HandlerJsonFails(c) ==
    /\ program = "next"
    /\ calls[c].pc = "json"
    /\ BeginFetchHtml(c, calls[c].target, Saw(calls[c], "json", FetchFailed, -1))
    /\ UNCHANGED <<ui, program, input, last>>

\* the GET of fetchHtml completes: the page is cached, parsed and shaped
HandlerHtmlArrives(c, n) ==
    /\ program = "next"
    /\ calls[c].pc = "html"
    /\ n \in HtmlNames
    /\ CacheStore(<<"html", calls[c].target>>, n)
    /\ calls' = [calls EXCEPT ![c] = DoneCall(@, @.target, ParsedResult(@.target, n),
                                              Saw(@, "html", n, -1))]
    /\ UNCHANGED <<ui, program, input, last, fetches>>

\* the GET of fetchHtml fails: the outer catch answers 500
HandlerHtmlFails(c) ==
    /\ program = "next"
    /\ calls[c].pc = "html"
    /\ calls' = [calls EXCEPT ![c] = DoneCall(@, @.target, Failure("Request failed"),
                                              Saw(@, "html", FetchFailed, -1))]
    /\ UNCHANGED <<ui, program, input, last, cache, fetches, delivered, dropped>>

\* the clock advances by one tick: every entry of the cache grows older
Tick ==
    /\ program = "next"
    /\ \E k \in CacheKeys : cache.val[k] # NoEntry /\ cache.age[k] <= TtlTicks
    /\ cache' = [cache EXCEPT !.age = [k \in CacheKeys |->
                     IF cache.val[k] # NoEntry /\ @[k] <= TtlTicks THEN @[k] + 1 ELSE @[k]]]
    /\ UNCHANGED <<ui, program, input, last, calls, fetches, delivered, dropped>>

-----------------------------------------------------------------------------
(* Browser code and Express route, applied to the input *)

NoLast == [op |-> "none", result |-> NoResult, value |-> NullV,
           threw |-> FALSE, net |-> 0]

ClientResolve ==
    /\ program = "client"
    /\ last' = [NoLast EXCEPT !.op = "resolveVideoUrl", !.result = resolveVideoUrl(input)]
    /\ UNCHANGED <<ui, program, input, calls, cache, fetches, delivered, dropped>>

ClientGetEmbedUrl ==
    /\ program = "client"
    /\ last' = [NoLast EXCEPT !.op = "getEmbedUrl",
                              !.value = getEmbedUrl(input).value,
                              !.threw = getEmbedUrl(input).threw]
    /\ UNCHANGED <<ui, program, input, calls, cache, fetches, delivered, dropped>>

ClientNavigateBrowser ==
    /\ program = "client"
    /\ last' = [NoLast EXCEPT !.op = "navigateBrowser", !.value = navigateBrowser(input)]
    /\ UNCHANGED <<ui, program, input, calls, cache, fetches, delivered, dropped>>

\* the route runs into await axios.get(url): it is not a direct file, has
\* no YouTube id and axios can issue the GET
ExpressReachesFetch(url) ==
    /\ url # <<>>
    /\ ~ExpressDirectMatch(url)
    /\ ExpressYouTubeMatch(url) = NullV
    /\ IsHttpTarget(url)

\* the route from its start to its response or to await axios.get(url)
ExpressRequest ==
    /\ program = "express"
    /\ last.op # "videoresolver:await"
    /\ last' = IF ExpressReachesFetch(input)
               THEN [NoLast EXCEPT !.op = "videoresolver:await", !.net = 1]
               ELSE [NoLast EXCEPT !.op = "videoresolver",
                                   !.result = videoresolver(input, FetchFailed).result,
                                   !.net = videoresolver(input, FetchFailed).net]
    /\ UNCHANGED <<ui, program, input, calls, cache, fetches, delivered, dropped>>

\* the remote host answers the GET of the scrape fallback, which carries no
\* timeout: the route responds
ExpressResolve(resp) ==
    /\ program = "express"
    /\ last.op = "videoresolver:await"
    /\ resp \in ExpressResponses(input)
    /\ last' = [NoLast EXCEPT !.op = "videoresolver",
                              !.result = videoresolver(input, resp).result,
                              !.net = videoresolver(input, resp).net]
    /\ UNCHANGED <<ui, program, input, calls, cache, fetches, delivered, dropped>>

-----------------------------------------------------------------------------
(* components/PlaylistCreator: the playlist and its player *)

\* the URLs typed or pasted into the add fields: two that resolve and a
\* text that does not
UrlA == <<"https://", "www.youtube.com", "/", "watch", "?", "v=", IdLong>>
UrlB == <<"https://", "example.com", "/", "file", ".mp4">>
AddUrls == {UrlA, UrlB, <<FreeText>>}

\* { id, url, title }
VideoItem(id, url, title) == [id |-> id, url |-> url, title |-> title]

\* playlist.map(video => video.id)
Ids(playlist) == {playlist[i].id : i \in 1..Len(playlist)}

\* playlist.findIndex(v => v.id === id), 0-based, -1 if there is none
findIndex(playlist, id) ==
    IF \E i \in 1..Len(playlist) : playlist[i].id = id
    THEN Min({i \in 1..Len(playlist) : playlist[i].id = id}) - 1
    ELSE -1

\* playlist.filter(v => v.id !== id)
WithoutId(playlist, id) == SelectSeq(playlist, LAMBDA v : v.id # id)

\* over?.id of a drag that ends over no item
NoItem == <<-1, -1>>

\* playlist[currentVideoIndex] is defined
HasCurrent(playlist, i) == i \in 0..Len(playlist) - 1

\* playlist[currentVideoIndex], where it is defined
currentVideo(playlist, i) == playlist[i + 1]

\* the index set by removeVideo(id) with index = findIndex(playlist, id)
IndexAfterRemove(index, i, n) ==
    IF index = i /\ n > 1 THEN (IF i < n - 2 THEN i ELSE n - 2)
    ELSE IF index < i THEN i - 1
    ELSE i

\* the index set by moveVideo(from, to) and by handleDragEnd
IndexAfterMove(from, to, i) ==
    IF from = i THEN to
    ELSE IF from < i /\ to >= i THEN i - 1
    ELSE IF from > i /\ to <= i THEN i + 1
    ELSE i

\* items with the item at 0-based position from taken out
TakenOut(items, from) == SubSeq(items, 1, from) \o SubSeq(items, from + 2, Len(items))

\* newPlaylist.splice(to, 0, moved): moved put in at 0-based position to
PutIn(items, to, moved) ==
    SubSeq(items, 1, to) \o <<moved>> \o SubSeq(items, to + 1, Len(items))

\* arrayMove of @dnd-kit/sortable: a negative target counts from the end of
\* the array as it is before the item is taken out
arrayMove(items, from, to) ==
    PutIn(TakenOut(items, from),
          IF to < 0 THEN Len(items) + to ELSE to,
          items[from + 1])

\* the index set by nextVideo()
nextVideo(i, n) == IF i < n - 1 THEN i + 1 ELSE 0

\* the index set by previousVideo()
previousVideo(i, n) == IF i > 0 THEN i - 1 ELSE n - 1

\* the window messages a player frame can post; data is an object unless
\* text is TRUE, in which case it is the JSON text of that object
Message(origin, text, event, type, playerState) ==
    [origin |-> origin, text |-> text, event |-> event, type |-> type,
     playerState |-> playerState]

Messages ==
    {Message("https://www.youtube.com", TRUE, "video-progress", "", 0),
     Message("https://www.youtube.com", TRUE, "video-progress", "", 1),
     Message("https://player.vimeo.com", TRUE, "ended", "", -1),
     Message("https://player.vimeo.com", FALSE, "ended", "xplayer_event", -1),
     Message("https://cdn.example.com", FALSE, "video_ended", "", -1)}

\* the branches of handleMessage that call nextVideo() for message m
MatchedPatterns(m) ==
    {p \in {"youtube", "vimeo", "xplayer", "generic"} :
        \/ p = "youtube" /\ m.origin = "https://www.youtube.com"
                         /\ m.event = "video-progress" /\ m.playerState = 0
        \/ p = "vimeo" /\ m.origin = "https://player.vimeo.com" /\ m.event = "ended"
        \/ p = "xplayer" /\ ~m.text /\ m.type = "xplayer_event" /\ m.event = "ended"
        \/ p = "generic" /\ ~m.text /\ (m.event = "video_ended" \/ m.type = "video_ended")}

\* every nextVideo() call works on the index the state holds by then
AfterCallsOnState(k, seen, n, i) ==
    IF k = 0 THEN i ELSE IF k = 1 THEN nextVideo(i, n) ELSE nextVideo(nextVideo(i, n), n)

\* the index after the k calls of nextVideo() one run of handleMessage
\* makes: every call sets the index computed from seen, the
\* currentVideoIndex of the render the handler was created in
AfterCalls(k, seen, n, i) == IF k = 0 THEN i ELSE nextVideo(seen, n)

\* localStorage.getItem gives null
NoStored == [present |-> FALSE, name |-> <<>>, videos |-> <<>>]

\* { name, videos }
Stored(name, videos) == [present |-> TRUE, name |-> name, videos |-> videos]

\* what 'playlist-creator-playlists' holds when the page is opened: the
\* playlists that savePlaylist stored in earlier sessions
SavedPlaylists ==
    <<Stored(<<"Mix">>, <<VideoItem(<<0, 0>>, UrlB, <<"file", ".mp4">>),
                         VideoItem(<<0, 1>>, YouTubeEmbed(IdLong), <<"YouTube Video">>)>>)>>

\* the names a playlist is given
Names == {<<>>, <<"Mix">>}

\* no file was downloaded
NoFile == [kind |-> "none", lines |-> <<>>]

\* the state of a component that has just been created
InitialUi ==
    [playlist |-> <<>>, currentVideoIndex |-> 0, isPlaying |-> FALSE,
     currentPlaylistName |-> <<>>,
     stored |-> NoStored, restore |-> NoStored, phase |-> "closed",
     timers |-> <<>>, inflight |-> <<>>, now |-> 0,
     batch |-> <<>>, batchAdded |-> <<>>, file |-> NoFile,
     exported |-> <<>>,
     did |-> [op |-> "none", arg |-> 0]]

\* the operation a step performed and its arguments
Did(op, arg) == [op |-> op, arg |-> arg]

\* the auto-save effect: setItem('playlist-creator-current', { name, videos })
AutoSaved(u) ==
    IF program = "playlist"
    THEN [u EXCEPT !.stored = Stored(u.currentPlaylistName, u.playlist)]
    ELSE u

\* the component shows and takes events
Shown == ui.phase = "shown"

\* items the playlist holds or is about to get
Expected == Len(ui.playlist) + Len(ui.inflight) + Len(ui.timers)

-----------------------------------------------------------------------------
(* Specification *)

Init ==
    /\ program \in {"client", "express", "next"}
    /\ input \in (IF program = "next" THEN {<<>>} ELSE Inputs)
    /\ last = NoLast
    /\ calls = [c \in Calls |-> IdleCall]
    /\ cache = EmptyCache
    /\ fetches = [k \in CacheKeys |-> 0]
    /\ delivered = [f \in Resources |-> NoEntry]
    /\ dropped = {}
    /\ ui = InitialUi

Next ==
    \/ ClientResolve
    \/ ClientGetEmbedUrl
    \/ ClientNavigateBrowser
    \/ ExpressRequest
    \/ \E resp \in HtmlNames \cup {FetchFailed} : ExpressResolve(resp)
    \/ \E c \in Calls, t \in Targets : HandlerRequest(c, t)
    \/ \E c \in Calls, n \in JsonNames : HandlerJsonArrives(c, n)
    \/ \E c \in Calls : HandlerJsonFails(c)
    \/ \E c \in Calls, n \in HtmlNames : HandlerHtmlArrives(c, n)
    \/ \E c \in Calls : HandlerHtmlFails(c)
    \/ Tick

Spec == Init /\ [][Next]_vars

\* call c stops waiting: its GET resolves, or rejects (at the latest when
\* the timeout of 10000 ms set by fetchJson / fetchHtml expires)
HandlerSettles(c) ==
    \/ \E n \in JsonNames : HandlerJsonArrives(c, n)
    \/ HandlerJsonFails(c)
    \/ \E n \in HtmlNames : HandlerHtmlArrives(c, n)
    \/ HandlerHtmlFails(c)

\* the inputs under which progress is examined: the URLs sent to the handler
LiveInit == Init /\ input \in Targets \cup {<<>>}

\* the requests that were received run: synchronous code runs to its end,
\* and a GET with a timeout settles. The GET of the Express route has no
\* timeout, so nothing makes it settle.
LiveSpec ==
    /\ LiveInit
    /\ [][Next]_vars
    /\ WF_vars(ExpressRequest)
    /\ \A c \in Calls : WF_vars(HandlerSettles(c))

\* the decimal text of a small number
NumTok(n) == CASE n = 1 -> "1" [] n = 2 -> "2" [] n = 3 -> "3" [] OTHER -> "4"

\* `Video ${n}`
VideoN(n) == <<"Video", " ", NumTok(n)>>

\* result.embed?.url || result.media?.[0] || url
UsableUrl(result, url) ==
    IF Truthy(result.embedUrl) THEN result.embedUrl
    ELSE IF result.media # <<>> THEN result.media[1]
    ELSE url

\* Date.now().toString() + Math.random().toString(36).substr(2, 9): the
\* random part is taken not to repeat among the items of the playlist
NewId(playlist, now) ==
    <<now, Min({r \in 0..Len(playlist) : <<now, r>> \notin Ids(playlist)})>>

\* the new item put in front of the list
Prepended(prev, item) == <<item>> \o prev

\* setPlaylist(prev => [...prev, videoItem])
Appended(prev, item) == Append(prev, item)

\* the item resolveAndAdd builds from a successful result
ResolvedItem(u, url, result) ==
    VideoItem(NewId(u.playlist, u.now), UsableUrl(result, url),
              OrElse(result.title, VideoN(Len(u.playlist) + 1)))

\* a call of resolveAndAdd that waits for its awaits
Pending(url, from) == [url |-> url, from |-> from]

\* the URLs of the bulk field, one per line
BulkUrls == {<<UrlA, UrlB>>, <<UrlB, <<FreeText>>, UrlA>>}

\* any waiting call may go on next
AnyReady(inflight) == 1..Len(inflight)

\* the positions of the calls of resolveAndAdd that can go on next: the
\* calls wait for the same module and go on in the order they were made
Ready(inflight) == IF inflight = <<>> THEN {} ELSE {1}

\* inflight without its k-th call
Dropped(inflight, k) == SubSeq(inflight, 1, k - 1) \o SubSeq(inflight, k + 1, Len(inflight))

\* addVideo(newUrl): resolveAndAdd(url) runs up to its first await
AddVideo(url) ==
    /\ program = "playlist"
    /\ Shown
    /\ url # <<>>
    /\ Expected < MaxItems
    /\ ui' = [ui EXCEPT !.inflight = Append(@, Pending(url, "single")),
                        !.did = Did("add", 1)]
    /\ UNCHANGED <<program, input, last, calls, cache, fetches, delivered, dropped>>

\* addBulkVideos(): one timer per line, at index * 500 ms
AddBulkVideos(urls) ==
    /\ program = "playlist"
    /\ Shown
    /\ ui.timers = <<>>
    /\ \A k \in 1..Len(ui.inflight) : ui.inflight[k].from # "bulk"
    /\ Expected + Len(urls) <= MaxItems
    /\ ui' = [ui EXCEPT !.timers = urls, !.batch = urls, !.batchAdded = <<>>,
                        !.did = Did("add", 1)]
    /\ UNCHANGED <<program, input, last, calls, cache, fetches, delivered, dropped>>

\* the next timer fires: resolveAndAdd(url) runs up to its first await
TimerFires ==
    /\ program = "playlist"
    /\ ui.timers # <<>>
    /\ ui' = [ui EXCEPT !.timers = Tail(@),
                        !.inflight = Append(@, Pending(Head(ui.timers), "bulk")),
                        !.did = Did("add", 1)]
    /\ UNCHANGED <<program, input, last, calls, cache, fetches, delivered, dropped>>

\* the item of the catch branch: the URL as it was passed, without metadata
FallbackItem(u, url) ==
    VideoItem(NewId(u.playlist, u.now), url, VideoN(Len(u.playlist) + 1))

\* resolveAndAdd goes on after its awaits: with the result of
\* resolveVideoUrl when the module was imported, in its catch branch when
\* the import was rejected
ResolveAndAddSettles(k, imported) ==
    /\ program = "playlist"
    /\ k \in Ready(ui.inflight)
    /\ LET e == ui.inflight[k]
           result == resolveVideoUrl(e.url)
           outcome == IF ~imported THEN 2 ELSE IF result.ok THEN 1 ELSE 0
           rest == [ui EXCEPT !.inflight = Dropped(@, k),
                              !.did = Did("resolveAndAdd", outcome)]
       IN  ui' = IF outcome = 0 THEN rest
                 ELSE AutoSaved([rest EXCEPT
                        !.playlist = Appended(@, IF imported
                                                 THEN ResolvedItem(ui, e.url, result)
                                                 ELSE FallbackItem(ui, e.url)),
                        !.batchAdded = IF e.from = "bulk"
                                      THEN Append(@, NewId(ui.playlist, ui.now))
                                      ELSE @])
    /\ UNCHANGED <<program, input, last, calls, cache, fetches, delivered, dropped>>

\* addVideo(newUrl) of the basic component: the item is appended at once
BasicAddVideo(url) ==
    /\ program = "playlist:basic"
    /\ url # <<>>
    /\ Len(ui.playlist) < MaxItems
    /\ ui' = [ui EXCEPT !.playlist = Append(@, VideoItem(<<ui.now, 0>>, url, VideoN(Len(@) + 1))),
                        !.did = Did("add", 1)]
    /\ UNCHANGED <<program, input, last, calls, cache, fetches, delivered, dropped>>

\* the items addBulkVideos of the basic component builds: id Date.now() + index
BasicItems(urls, now, n) ==
    [k \in 1..Len(urls) |-> VideoItem(<<now + k - 1, 0>>, urls[k], VideoN(n + k))]

\* addBulkVideos() of the basic component
BasicAddBulkVideos(urls) ==
    /\ program = "playlist:basic"
    /\ Len(ui.playlist) + Len(urls) <= MaxItems
    /\ ui' = [ui EXCEPT !.playlist = @ \o BasicItems(urls, ui.now, Len(@)),
                        !.did = Did("add", 1)]
    /\ UNCHANGED <<program, input, last, calls, cache, fetches, delivered, dropped>>

\* removeVideo(id), the Trash button of an item
RemoveVideo(id) ==
    /\ program \in {"playlist", "playlist:basic"}
    /\ Shown
    /\ id \in Ids(ui.playlist)
    /\ ui' = AutoSaved([ui EXCEPT
                !.playlist = WithoutId(@, id),
                !.currentVideoIndex = IndexAfterRemove(findIndex(ui.playlist, id), @,
                                                       Len(ui.playlist)),
                !.did = Did("removeVideo", 1)])
    /\ UNCHANGED <<program, input, last, calls, cache, fetches, delivered, dropped>>

\* handleDragEnd({ active, over }): over is null when the drag ends over
\* no item
HandleDragEnd(active, over) ==
    /\ program = "playlist"
    /\ Shown
    /\ active \in Ids(ui.playlist)
    /\ over \in Ids(ui.playlist) \cup {NoItem}
    /\ LET oldIndex == findIndex(ui.playlist, active)
           newIndex == findIndex(ui.playlist, over)
       IN  ui' = IF active = over THEN [ui EXCEPT !.did = Did("handleDragEnd", 0)]
                 ELSE AutoSaved([ui EXCEPT
                        !.playlist = arrayMove(@, oldIndex, newIndex),
                        !.currentVideoIndex = IndexAfterMove(oldIndex, newIndex, @),
                        !.did = Did("handleDragEnd", IF newIndex < 0 THEN -1 ELSE 1)])
    /\ UNCHANGED <<program, input, last, calls, cache, fetches, delivered, dropped>>

\* moveVideo(fromIndex, toIndex) of the basic component
MoveVideo(from, to) ==
    /\ program = "playlist:basic"
    /\ from \in 0..Len(ui.playlist) - 1
    /\ to \in 0..Len(ui.playlist) - 1
    /\ ui' = [ui EXCEPT !.playlist = PutIn(TakenOut(@, from), to, @[from + 1]),
                        !.currentVideoIndex = IndexAfterMove(from, to, @),
                        !.did = Did("moveVideo", 1)]
    /\ UNCHANGED <<program, input, last, calls, cache, fetches, delivered, dropped>>

\* playVideo(index), the Play button of an item
PlayVideo(index) ==
    /\ program \in {"playlist", "playlist:basic"}
    /\ Shown
    /\ index \in 0..Len(ui.playlist) - 1
    /\ ui' = [ui EXCEPT !.currentVideoIndex = index, !.isPlaying = TRUE,
                        !.did = Did("playVideo", 1)]
    /\ UNCHANGED <<program, input, last, calls, cache, fetches, delivered, dropped>>

\* the player controls are rendered only while currentVideo is defined
ControlsShown == Shown /\ HasCurrent(ui.playlist, ui.currentVideoIndex)

\* nextVideo(), the skip-forward button
NextVideo ==
    /\ program \in {"playlist", "playlist:basic"}
    /\ ControlsShown
    /\ ui' = [ui EXCEPT !.currentVideoIndex = nextVideo(@, Len(ui.playlist)),
                        !.did = Did("nextVideo", 1)]
    /\ UNCHANGED <<program, input, last, calls, cache, fetches, delivered, dropped>>

\* previousVideo(), the skip-back button
PreviousVideo ==
    /\ program \in {"playlist", "playlist:basic"}
    /\ ControlsShown
    /\ ui' = [ui EXCEPT !.currentVideoIndex = previousVideo(@, Len(ui.playlist)),
                        !.did = Did("previousVideo", 1)]
    /\ UNCHANGED <<program, input, last, calls, cache, fetches, delivered, dropped>>

\* togglePlayPause()
TogglePlayPause ==
    /\ program \in {"playlist", "playlist:basic"}
    /\ ControlsShown
    /\ ui' = [ui EXCEPT !.isPlaying = ~@, !.did = Did("other", 1)]
    /\ UNCHANGED <<program, input, last, calls, cache, fetches, delivered, dropped>>

\* handleMessage(event): a window message arrives
HandleMessage(m) ==
    /\ program \in {"playlist", "playlist:basic"}
    /\ Shown
    /\ ui' = [ui EXCEPT
                !.currentVideoIndex = AfterCalls(Cardinality(MatchedPatterns(m)), @,
                                                 Len(ui.playlist), @),
                !.did = Did("handleMessage", Cardinality(MatchedPatterns(m)))]
    /\ UNCHANGED <<program, input, last, calls, cache, fetches, delivered, dropped>>
-----------------------------------------------------------------------------
(* components/PlaylistCreator: export and import of playlist files *)

\* tokens of blanks
SpaceToks == {" ", "   "}

\* tokens that hold a blank
BlankToks ==
    SpaceToks \cup {FreeText, "YouTube Video", "Vimeo Video", "Instagram Video",
                    "TikTok Video", "Twitch Video", "Dailymotion Video",
                    "Direct Video", "Video from "}

\* the part of a token before its first blank
FirstWord(t) ==
    CASE t = FreeText -> <<"not">>
      [] t = "YouTube Video" -> <<"YouTube">>
      [] t = "Vimeo Video" -> <<"Vimeo">>
      [] t = "Instagram Video" -> <<"Instagram">>
      [] t = "TikTok Video" -> <<"TikTok">>
      [] t = "Twitch Video" -> <<"Twitch">>
      [] t = "Dailymotion Video" -> <<"Dailymotion">>
      [] t = "Direct Video" -> <<"Direct">>
      [] t = "Video from " -> <<"Video">>
      [] OTHER -> <<>>

\* tokens that hold a dot
DotToks == HostToks \cup ExtToks \cup {".", ".php", ".jpg", ".json"}

\* tokens that hold the text http
HttpToks == {"https://", "http://", "httpbin.org", "http", "https"}

\* String.prototype.trim
RECURSIVE Trim(_)
Trim(line) ==
    IF line = <<>> THEN line
    ELSE IF Head(line) \in SpaceToks THEN Trim(Tail(line))
    ELSE IF Last(line) \in SpaceToks THEN Trim(SubSeq(line, 1, Len(line) - 1))
    ELSE line

\* line.includes('.')
IncludesDot(line) == \E i \in 1..Len(line) : line[i] \in DotToks

\* line.includes('http')
IncludesHttp(line) == \E i \in 1..Len(line) : line[i] \in HttpToks

\* the text of the videos joined by sep, as lines: content.split('\n')
RECURSIVE Joined(_, _)
Joined(blocks, sep) ==
    IF blocks = <<>> THEN <<>>
    ELSE IF Len(blocks) = 1 THEN Head(blocks)
    ELSE Head(blocks) \o sep \o Joined(Tail(blocks), sep)

\* `${index + 1}. ${video.title}\n   ${video.url}` joined by '\n\n'
TextLines(playlist) ==
    Joined([k \in 1..Len(playlist) |->
              << <<NumTok(k), ".", " ">> \o playlist[k].title,
                 <<"   ">> \o playlist[k].url >>],
           << <<>> >>)

\* '#EXTM3U\n' and `#EXTINF:-1,${video.title}\n${video.url}\n` per video
M3U8Lines(playlist) ==
    << <<"#", "EXTM3U">> >>
      \o Joined([k \in 1..Len(playlist) |->
                   << <<"#", "EXTINF:", "-1", ",">> \o playlist[k].title,
                      playlist[k].url >>],
                <<>>)
      \o << <<>> >>

\* the file a download wrote
File(kind, lines) == [kind |-> kind, lines |-> lines]

\* the URLs of the items, in their order
Urls(playlist) == [k \in 1..Len(playlist) |-> playlist[k].url]

\* isValidUrl(string): new URL of the string, https:// put in front unless
\* it starts with http, does not throw and the string holds a dot or http
isValidUrl(string) ==
    LET s == NormalizeUrl(string)
        rest == IF s = <<>> THEN <<>> ELSE WithoutFragment(s)
    IN  /\ ParseURL(s).valid
        /\ \A i \in 1..HostEnd(rest) : rest[i] \notin BlankToks
        /\ IncludesDot(string) \/ IncludesHttp(string)

\* the match of /https?:\/\/[^\s]+/ in line: NullV when there is none
UrlMatch(line) ==
    LET hits == {j \in 1..Len(line) - 1 :
                   line[j] \in {"https://", "http://"} /\ line[j + 1] \notin SpaceToks}
        j == Min(hits)
        stops == {k \in j + 1..Len(line) : line[k] \in BlankToks}
    IN  IF hits = {} THEN NullV
        ELSE IF stops = {} THEN From(line, j)
        ELSE SubSeq(line, j, Min(stops) - 1) \o FirstWord(line[Min(stops)])

\* the part of a token that ends with its last dot and the lower-case
\* letters, two or more, that follow the dot: <<>> when it has none
DotLetters(t) ==
    CASE t \in HostToks -> <<t>>
      [] t \in {".webm", ".ogg", ".mov", ".avi", ".mkv", ".php", ".jpg", ".json"} -> <<t>>
      [] t = ".mp4" -> <<".mp">>
      [] OTHER -> <<>>

\* the match of /[^\s]+\.[a-z]{2,}/ in line: NullV when there is none. The
\* match starts with the word, the blank-free run of tokens, and ends with
\* the last dot of the word that two lower-case letters follow
DotMatch(line) ==
    LET starts(i) == {j \in 1..i : \A k \in j..i - 1 : line[k] \notin BlankToks}
        hits == {i \in 1..Len(line) :
                   /\ DotLetters(line[i]) # <<>>
                   /\ line[i] \in HostToks \/ Min(starts(i)) < i}
        first == Min(hits)
        inWord == {i \in hits : Min(starts(i)) = Min(starts(first))}
    IN  IF hits = {} THEN NullV
        ELSE SubSeq(line, Min(starts(first)), Max(inWord) - 1)
               \o DotLetters(line[Max(inWord)])

\* the URLs importPlaylistFromFile finds from line i of the trimmed lines on
RECURSIVE FoundUrls(_, _)
FoundUrls(lines, i) ==
    IF i > Len(lines) THEN <<>>
    ELSE LET line == lines[i]
             next == IF i < Len(lines) THEN lines[i + 1] ELSE <<>>
         IN  IF MatchAt(line, 1, <<"#", "EXTINF:">>)
             THEN IF next # <<>> /\ Head(next) # "#" /\ isValidUrl(next)
                  THEN <<next>> \o FoundUrls(lines, i + 2)
                  ELSE FoundUrls(lines, i + 1)
             ELSE IF isValidUrl(line) THEN <<line>> \o FoundUrls(lines, i + 1)
             ELSE IF IncludesHttp(line) /\ UrlMatch(line) # NullV
                  THEN <<UrlMatch(line)>> \o FoundUrls(lines, i + 1)
             ELSE FoundUrls(lines, i + 1)

\* the lines of the file, trimmed
Trimmed(lines) == [i \in 1..Len(lines) |-> Trim(lines[i])]

\* the URLs importPlaylistFromFile of the basic component takes from the
\* lines: the lines that start with http or hold a dot, each replaced by the
\* match of one of the two patterns if there is one
BasicFoundUrls(lines) ==
    LET kept == SelectSeq(Trimmed(lines),
                          LAMBDA line : line # <<>> /\ (StartsWithHttpStr(line)
                                                        \/ IncludesDot(line)))
        found(line) == IF UrlMatch(line) # NullV THEN UrlMatch(line)
                       ELSE IF DotMatch(line) # NullV THEN DotMatch(line)
                       ELSE line
    IN  [i \in 1..Len(kept) |-> found(kept[i])]

\* exportPlaylistAsText(): the text file is downloaded
ExportPlaylistAsText ==
    /\ program \in {"playlist", "playlist:basic"}
    /\ Shown
    /\ ui.playlist # <<>>
    /\ ui' = [ui EXCEPT !.file = File("txt", TextLines(ui.playlist)),
                        !.exported = Urls(ui.playlist),
                        !.did = Did("export", 1)]
    /\ UNCHANGED <<program, input, last, calls, cache, fetches, delivered, dropped>>

\* exportPlaylistAsM3U8(): the .m3u8 file is downloaded
ExportPlaylistAsM3U8 ==
    /\ program = "playlist"
    /\ Shown
    /\ ui.playlist # <<>>
    /\ ui' = [ui EXCEPT !.file = File("m3u8", M3U8Lines(ui.playlist)),
                        !.exported = Urls(ui.playlist),
                        !.did = Did("export", 2)]
    /\ UNCHANGED <<program, input, last, calls, cache, fetches, delivered, dropped>>

\* importPlaylistFromFile of a text or .m3u8 file, when the reader has
\* loaded it: one timer per URL found, at index * 200 ms
ImportPlaylistFromFile ==
    /\ program = "playlist"
    /\ Shown
    /\ ui.file # NoFile
    /\ ui.timers = <<>>
    /\ \A k \in 1..Len(ui.inflight) : ui.inflight[k].from # "bulk"
    /\ LET urls == FoundUrls(Trimmed(ui.file.lines), 1)
       IN  /\ Expected + Len(urls) <= MaxItems
           /\ ui' = IF urls = <<>> THEN [ui EXCEPT !.did = Did("import", 0)]
                    ELSE [ui EXCEPT !.timers = urls, !.batch = urls,
                                    !.batchAdded = <<>>,
                                    !.did = Did("import", 1)]
    /\ UNCHANGED <<program, input, last, calls, cache, fetches, delivered, dropped>>

\* importPlaylistFromFile of the basic component, when the reader has
\* loaded the file: the items are appended at once
BasicImportPlaylistFromFile ==
    /\ program = "playlist:basic"
    /\ ui.file # NoFile
    /\ LET urls == BasicFoundUrls(ui.file.lines)
       IN  /\ Len(ui.playlist) + Len(urls) <= MaxItems
           /\ ui' = IF urls = <<>> THEN [ui EXCEPT !.did = Did("import", 0)]
                    ELSE [ui EXCEPT !.playlist = @ \o BasicItems(urls, ui.now, Len(@)),
                                    !.did = Did("import", 1)]
    /\ UNCHANGED <<program, input, last, calls, cache, fetches, delivered, dropped>>


\* clearPlaylist()
ClearPlaylist ==
    /\ program = "playlist"
    /\ Shown
    /\ ui' = AutoSaved([ui EXCEPT !.playlist = <<>>, !.currentVideoIndex = 0,
                                  !.currentPlaylistName = <<>>,
                                  !.did = Did("clearPlaylist", 1)])
    /\ UNCHANGED <<program, input, last, calls, cache, fetches, delivered, dropped>>

\* the name field is edited: setCurrentPlaylistName(name)
SetPlaylistName(name) ==
    /\ program = "playlist"
    /\ Shown
    /\ name # ui.currentPlaylistName
    /\ ui' = AutoSaved([ui EXCEPT !.currentPlaylistName = name,
                                  !.did = Did("other", 1)])
    /\ UNCHANGED <<program, input, last, calls, cache, fetches, delivered, dropped>>

\* loadPlaylist(playlistId) of the k-th saved playlist
LoadPlaylist(k) ==
    /\ program = "playlist"
    /\ Shown
    /\ k \in 1..Len(SavedPlaylists)
    /\ ui' = AutoSaved([ui EXCEPT !.playlist = SavedPlaylists[k].videos,
                                  !.currentPlaylistName = SavedPlaylists[k].name,
                                  !.currentVideoIndex = 0,
                                  !.did = Did("loadPlaylist", k)])
    /\ UNCHANGED <<program, input, last, calls, cache, fetches, delivered, dropped>>

\* the page is opened: the component is created and the effects of its
\* first render run in their order. The load effect queues the stored
\* videos and name as state updates, then the auto-save effect stores the
\* state of the first render, the empty playlist
Mount ==
    /\ program = "playlist"
    /\ ui.phase = "closed"
    /\ ui' = [ui EXCEPT !.stored = Stored(<<>>, <<>>),
                        !.restore = ui.stored,
                        !.phase = IF ui.stored = NoStored THEN "shown" ELSE "restoring",
                        !.did = Did("mount", 1)]
    /\ UNCHANGED <<program, input, last, calls, cache, fetches, delivered, dropped>>

\* the queued updates are rendered and the auto-save effect runs again
Render ==
    /\ program = "playlist"
    /\ ui.phase = "restoring"
    /\ ui' = AutoSaved([ui EXCEPT !.playlist = ui.restore.videos,
                                  !.currentPlaylistName = ui.restore.name,
                                  !.restore = NoStored,
                                  !.phase = "shown",
                                  !.did = Did("render", 1)])
    /\ UNCHANGED <<program, input, last, calls, cache, fetches, delivered, dropped>>

\* the page is closed or reloaded: the component, its timers and its
\* pending calls are gone, localStorage stays
PageCloses ==
    /\ program = "playlist"
    /\ ui.phase # "closed"
    /\ ui' = [InitialUi EXCEPT !.stored = ui.stored,
                               !.file = ui.file,
                               !.exported = ui.exported,
                               !.did = Did("close", 1)]
    /\ UNCHANGED <<program, input, last, calls, cache, fetches, delivered, dropped>>

\* the page of the basic component is reloaded: its state starts again
\* from the initial values of useState, nothing is kept but the files
BasicReload ==
    /\ program = "playlist:basic"
    /\ ui' = [InitialUi EXCEPT !.phase = "shown",
                               !.now = ui.now,
                               !.file = ui.file,
                               !.exported = ui.exported,
                               !.did = Did("close", 1)]
    /\ UNCHANGED <<program, input, last, calls, cache, fetches, delivered, dropped>>

\* Date.now() moves on; the ids of the basic component are made of it
ClockAdvances ==
    /\ program = "playlist:basic"
    /\ ui.now < MaxTime
    /\ ui' = [ui EXCEPT !.now = @ + 1, !.did = Did("other", 1)]
    /\ UNCHANGED <<program, input, last, calls, cache, fetches, delivered, dropped>>

\* no call of resolveAndAdd is scheduled or waiting
NothingPending == ui.timers = <<>> /\ ui.inflight = <<>>

\* addVideo while nothing else is being added
AddVideoAlone(url) == NothingPending /\ AddVideo(url)

\* the resolvers are not in use
ResolversIdle ==
    /\ input = <<>>
    /\ last = NoLast
    /\ calls = [c \in Calls |-> IdleCall]
    /\ cache = EmptyCache
    /\ fetches = [k \in CacheKeys |-> 0]
    /\ delivered = [f \in Resources |-> NoEntry]
    /\ dropped = {}

\* the page of one of the two components: the enhanced one is about to
\* mount, the basic one, which has no effects on mount, is shown
PlaylistInit ==
    /\ program \in {"playlist", "playlist:basic"}
    /\ ResolversIdle
    /\ ui = [InitialUi EXCEPT !.phase = IF program = "playlist" THEN "closed" ELSE "shown"]

PlaylistNext ==
    \/ \E url \in AddUrls : AddVideoAlone(url)
    \/ \E k \in 1..MaxItems : ResolveAndAddSettles(k, TRUE)
    \/ BasicAddVideo(UrlA)
    \/ BasicAddBulkVideos(<<UrlA, UrlB>>)
    \/ \E id \in Ids(ui.playlist) : RemoveVideo(id)
    \/ \E active \in Ids(ui.playlist), over \in Ids(ui.playlist) \cup {NoItem} :
          HandleDragEnd(active, over)
    \/ \E from \in 0..MaxItems - 1, to \in 0..MaxItems - 1 : MoveVideo(from, to)
    \/ \E index \in 0..MaxItems - 1 : PlayVideo(index)
    \/ NextVideo
    \/ PreviousVideo
    \/ TogglePlayPause
    \/ \E m \in Messages : HandleMessage(m)
    \/ ClearPlaylist
    \/ \E name \in Names : SetPlaylistName(name)
    \/ \E k \in 1..Len(SavedPlaylists) : LoadPlaylist(k)
    \/ Mount
    \/ Render
    \/ PageCloses
    \/ BasicReload
    \/ ClockAdvances

PlaylistSpec == PlaylistInit /\ [][PlaylistNext]_vars

\* files exported from the saved playlist in an earlier visit
DownloadedFiles ==
    {NoFile,
     File("txt", TextLines(SavedPlaylists[1].videos)),
     File("m3u8", M3U8Lines(SavedPlaylists[1].videos))}

\* additions to the playlist of the enhanced component: single adds, bulk
\* adds and imports, their timers and their calls of resolveAndAdd,
\* overlapping as they come
BulkInit ==
    /\ program = "playlist"
    /\ ResolversIdle
    /\ \E f \in DownloadedFiles : ui = [InitialUi EXCEPT !.file = f]

BulkNext ==
    \/ Mount
    \/ \E url \in AddUrls : AddVideo(url)
    \/ \E urls \in BulkUrls : AddBulkVideos(urls)
    \/ ImportPlaylistFromFile
    \/ TimerFires
    \/ \E k \in 1..MaxItems, imported \in BOOLEAN : ResolveAndAddSettles(k, imported)

BulkSpec == BulkInit /\ [][BulkNext]_vars

\* one export in a run, while nothing is being added
NothingExported == ui.file = NoFile

ExportTextOnce == NothingExported /\ NothingPending /\ ExportPlaylistAsText

ExportM3U8Once == NothingExported /\ NothingPending /\ ExportPlaylistAsM3U8

\* a playlist is made, exported, emptied and imported again
FileNext ==
    \/ Mount
    \/ \E url \in AddUrls : AddVideoAlone(url)
    \/ TimerFires
    \/ \E k \in 1..MaxItems : ResolveAndAddSettles(k, TRUE)
    \/ \E k \in 1..Len(SavedPlaylists) : LoadPlaylist(k)
    \/ ClearPlaylist
    \/ BasicAddVideo(UrlA)
    \/ BasicAddBulkVideos(<<UrlA, UrlB>>)
    \/ BasicReload
    \/ ExportTextOnce
    \/ ExportM3U8Once
    \/ ImportPlaylistFromFile
    \/ BasicImportPlaylistFromFile

FileSpec == PlaylistInit /\ [][FileNext]_vars

-----------------------------------------------------------------------------
(* Vocabulary of the properties *)

\* the last operation was a resolve of the browser resolver or Express route
Resolved == last.op \in {"resolveVideoUrl", "videoresolver"}

\* call c of the Next.js handler has answered
Answered(c) == calls[c].pc = "done"

\* the envelope has a playable target
Playable(r) ==
    \/ "embed.url" \in r.present /\ r.embedUrl # NullV
    \/ "embed.html" \in r.present /\ r.embedHtml # NullV
    \/ "media" \in r.present /\ Len(r.media) > 0

\* the input starts with a URL scheme
HasScheme(u) == u # <<>> /\ Head(u) \in SchemeToks

\* normalization as specified: prefix https:// if no scheme is present
SpecNormalize(u) == IF HasScheme(u) THEN u ELSE <<"https://">> \o u

\* u is a URL whose path ends, in either case, in a recognized extension
IsDirectFileUrl(u) ==
    /\ ParseURL(u).valid
    /\ EndsWithExt(ToLowerCase(ParseURL(u).pathname), VideoExtensions)

\* the success envelope specified for a direct file
IsDirectEnvelope(r, u) ==
    /\ r.ok
    /\ r.provider = "direct"
    /\ "embed.url" \in r.present /\ r.embedUrl = u
    /\ "media" \in r.present /\ r.media = <<u>>

-----------------------------------------------------------------------------
(* Properties *)

\* C1: a success envelope always carries a playable target: whenever a
\* resolver answers ok = true, one of embed.url, embed.html or a non-empty
\* media list is present and non-null, on every path of every resolver.
C1_SuccessIsPlayable ==
    /\ Resolved /\ last.result.ok => Playable(last.result)
    /\ \A c \in Calls : Answered(c) /\ calls[c].result.ok => Playable(calls[c].result)

\* C2: for every input URL whose path ends in a recognized video extension,
\* resolve answers ok = true, provider direct, embed.url = the input and
\* media = [input], and issues no network fetch on the way.
C2_DirectFile ==
    /\ Resolved /\ IsDirectFileUrl(input)
         => IsDirectEnvelope(last.result, input) /\ last.net = 0
    /\ \A c \in Calls : Answered(c) /\ IsDirectFileUrl(calls[c].target)
         => IsDirectEnvelope(calls[c].result, calls[c].target) /\ calls[c].net = 0

\* the three YouTube URL forms of video id
YouTubeForms(id) ==
    {<<"https://", "www.youtube.com", "/", "watch", "?", "v=", id>>,
     <<"https://", "youtu.be", "/", id>>,
     <<"https://", "www.youtube.com", "/", "shorts", "/", id>>}

\* the canonical YouTube answer for video id
IsYouTubeEnvelope(r, id) ==
    /\ r.ok
    /\ r.provider = "youtube"
    /\ r.embedUrl = YouTubeEmbed(<<id>>)
    /\ r.thumbnail = YouTubeThumbnail(<<id>>)

\* C3: for every video id the three URL forms watch?v=ID, youtu.be/ID and
\* shorts/ID resolve alike: provider youtube, the canonical embed URL and
\* the thumbnail of that same ID.
C3_YouTubeForms ==
    \A id \in VideoIds :
        /\ Resolved /\ input \in YouTubeForms(id) => IsYouTubeEnvelope(last.result, id)
        /\ last.op = "getEmbedUrl" /\ input \in YouTubeForms(id)
             => ~last.threw /\ last.value = YouTubeEmbed(<<id>>)
        /\ \A c \in Calls : Answered(c) /\ calls[c].target \in YouTubeForms(id)
             => IsYouTubeEnvelope(calls[c].result, id)

\* all requests made so far ask for the same URL
SameUrlRequested ==
    \A c, d \in Calls : calls[c].pc # "idle" /\ calls[d].pc # "idle"
                          => calls[c].target = calls[d].target

\* C4: two resolve calls on the same URL within the cache TTL (no entry has
\* expired or was evicted; the second call made after or while the first is
\* in flight) answer identically and fetch every resource at most
\* once from the network, whatever the remote answers.
C4_Idempotent ==
    SameUrlRequested /\ dropped = {} =>
        /\ \A k \in CacheKeys : fetches[k] <= 1
        /\ \A c, d \in Calls : Answered(c) /\ Answered(d)
                                 => calls[c].result = calls[d].result

\* the envelope has an error string and no data field
CarriesOnlyError(r) ==
    /\ "error" \in r.present
    /\ r.error # ""
    /\ r.present \cap DataKeys = {}

\* C5: every failure envelope carries only the error: with ok = false the
\* result has an error string and none of url, provider, title, description,
\* thumbnail, embed or media.
C5_FailureCarriesOnlyError ==
    /\ Resolved /\ ~last.result.ok => CarriesOnlyError(last.result)
    /\ \A c \in Calls : Answered(c) /\ ~calls[c].result.ok
                          => CarriesOnlyError(calls[c].result)

\* C5 witness: the handler has answered 404 for a page without media
C5_Witness ==
    \E c \in Calls : /\ Answered(c)
                     /\ ~calls[c].result.ok
                     /\ calls[c].result.error = "No embeddable media found"

\* after normalization u is not a parseable http(s) URL
IsInvalidInput(u) ==
    LET x == ParseURL(SpecNormalize(u))
    IN  ~(x.valid /\ x.protocol \in {"http", "https"})

\* C6: an input that after normalization is not a parseable http or https
\* URL is refused: ok = false and no network call, so ftp:// inputs and
\* 'not a url' never resolve.
C6_InvalidUrlRefused ==
    /\ Resolved /\ IsInvalidInput(input) => ~last.result.ok /\ last.net = 0
    /\ \A c \in Calls : Answered(c) /\ IsInvalidInput(calls[c].target)
                          => ~calls[c].result.ok /\ calls[c].net = 0

\* two envelopes resolve alike: same outcome, provider and embed target
ResolveAlike(r, q) ==
    /\ r.ok = q.ok
    /\ r.provider = q.provider
    /\ r.ok => (r.embedUrl = r.url) = (q.embedUrl = q.url)

\* C7: normalization prefixes https:// exactly when the input has no scheme
\* and leaves an input with a scheme unchanged, and resolve works on the
\* normalized URL throughout: a scheme-less input resolves like the same
\* input with https:// in front.
C7_Normalization ==
    /\ last.op = "navigateBrowser" /\ input # <<>> => last.value = SpecNormalize(input)
    /\ last.op = "resolveVideoUrl" /\ input # <<>> /\ ~HasScheme(input)
         => ResolveAlike(last.result, resolveVideoUrl(<<"https://">> \o input))

\* the success names no target beyond the unresolved input or null
MerelyInput(r, u) ==
    /\ r.embedUrl \in {NullV, u}
    /\ r.embedHtml = NullV
    /\ r.media = <<>>

\* C8: when enrichment finds neither an embed URL nor a direct-media URL the
\* answer is a failure: no success has the unresolved input URL or null as
\* its only target (a direct file plays from its own URL and is exempt).
C8_NoEmbeddableMedia ==
    /\ Resolved /\ last.result.ok /\ last.result.provider # "direct"
         => ~MerelyInput(last.result, input)
    /\ \A c \in Calls : Answered(c) /\ calls[c].result.ok
                          /\ calls[c].result.provider # "direct"
                          => ~MerelyInput(calls[c].result, calls[c].target)

\* the embed URL of the site-specific rewrite rules for u, NullV if none applies
SiteRewrite(u) ==
    LET x == ParseURL(SpecNormalize(u))
    IN  IF ~x.valid THEN NullV
        ELSE IF SiteVideosRewrite(x) # NullV THEN SiteVideosRewrite(x)
        ELSE SiteViewkeyRewrite(x)

\* u is classified by rule 1 (direct file)
IsDirectInput(u) == IsDirectFileUrl(SpecNormalize(u))

\* C9: classification is an ordered decision list, first match wins: a URL
\* matching the direct-file rule resolves as direct whatever later rule it
\* matches, and a URL matching a site-specific rewrite and a generic
\* provider resolves via the site-specific rule.
C9_PriorityOrder ==
    /\ last.op = "getEmbedUrl" /\ ~last.threw /\ IsDirectInput(input)
         => last.value = input
    /\ last.op = "getEmbedUrl" /\ ~last.threw /\ ~IsDirectInput(input)
          /\ SiteRewrite(input) # NullV
         => last.value = SiteRewrite(input)
    /\ last.op = "resolveVideoUrl" /\ last.result.ok /\ IsDirectInput(input)
         => last.result.provider = "direct"
    /\ last.op = "resolveVideoUrl" /\ last.result.ok /\ ~IsDirectInput(input)
          /\ SiteRewrite(input) # NullV
         => last.result.embedUrl = SiteRewrite(input)

\* the hostname of u
HostOf(u) == ParseURL(SpecNormalize(u)).hostname

\* the provider named in envelope r is one of the host of u
ProviderMatchesHost(r, u) ==
    /\ r.provider = "youtube"
         => HostnameIncludes(HostOf(u), "youtube.com") \/ HostnameIncludes(HostOf(u), "youtu.be")
    /\ r.provider = "vimeo" => HostnameIncludes(HostOf(u), "vimeo.com")

\* C10: a host-specific provider is assigned only to URLs of that host:
\* provider youtube only for hostnames containing youtube.com or youtu.be,
\* provider vimeo only for hostnames containing vimeo.com.
C10_ProviderByHost ==
    /\ Resolved /\ last.result.ok => ProviderMatchesHost(last.result, input)
    /\ \A c \in Calls : Answered(c) /\ calls[c].result.ok
                          => ProviderMatchesHost(calls[c].result, calls[c].target)

\* a provider-specific embed URL whose id is empty or missing
EmptyIdEmbeds ==
    {YouTubeEmbed(<<>>), VimeoEmbed(<<>>), TwitchEmbed(<<>>), DailymotionEmbed(<<>>),
     YouTubeEmbed(NullV), VimeoEmbed(NullV), TwitchEmbed(NullV), DailymotionEmbed(NullV)}

\* C11: when a hostname matches a provider but no id can be extracted,
\* classification falls through: no operation returns a provider-specific
\* embed URL built from an empty or missing id.
C11_NoEmptyIdEmbed ==
    /\ last.op = "getEmbedUrl" /\ ~last.threw => last.value \notin EmptyIdEmbeds
    /\ Resolved /\ last.result.ok => last.result.embedUrl \notin EmptyIdEmbeds
    /\ \A c \in Calls : Answered(c) /\ calls[c].result.ok
                          => calls[c].result.embedUrl \notin EmptyIdEmbeds

\* oEmbed answers that are not an oEmbed JSON object
MalformedJson == {"json:empty", "json:text"}

\* the oEmbed layer of the call failed: its fetch failed or its payload was
\* malformed
OEmbedLayerFailed(call) ==
    /\ call.seen # <<>>
    /\ call.seen[1].layer = "json"
    /\ call.seen[1].got \in {FetchFailed} \cup MalformedJson

\* the call went on with the HTML scrape layer and answers from it
AnsweredFromScrape(call) ==
    /\ Len(call.seen) = 2
    /\ call.seen[2].layer = "html"
    /\ (call.seen[2].got = FetchFailed) <=> (call.result.error = "Request failed")

\* C12: enrichment layers are best-effort in order: when the oEmbed fetch
\* fails (timeout, non-2xx status or malformed payload) the handler goes on
\* with the HTML scrape, and a network error is returned only when the
\* scrape layer has failed too.
C12_LayersFallThrough ==
    \A c \in Calls : Answered(c) /\ OEmbedLayerFailed(calls[c])
                       => AnsweredFromScrape(calls[c])

\* C13: every resolve request terminates with a response envelope: every
\* outbound fetch carries a bounded timeout, so no request stays pending
\* forever when a remote host never answers.
C13_EveryRequestTerminates ==
    /\ \A c \in Calls : (calls[c].pc \in {"json", "html"}) ~> Answered(c)
    /\ (last.op = "videoresolver:await") ~> (last.op = "videoresolver")

\* the response of the handler run alone for target, when its fetches give
\* it, in order, what seen says
AloneResult(target, seen) ==
    IF ImmediateResult(target) # NoResult THEN ImmediateResult(target)
    ELSE IF seen = <<>> THEN NoResult
    ELSE IF Last(seen).layer = "json" /\ Last(seen).got # FetchFailed
         THEN OEmbedResult(target, Last(seen).got)
    ELSE IF Last(seen).layer = "html" /\ Last(seen).got # FetchFailed
         THEN ParsedResult(target, Last(seen).got)
    ELSE IF Last(seen).layer = "html" THEN Failure("Request failed")
    ELSE NoResult

\* the resource of layer that the handler fetches for target
ResourceFor(layer, target) ==
    IF layer = "json" THEN <<"json", knownOEmbed(target)>> ELSE <<"html", target>>

\* what a fetch gave the call is a payload of its layer, and a payload out
\* of the cache is the one the call's own resource delivered last
SawItsOwn(target, g) ==
    /\ g.got \in (IF g.layer = "json" THEN JsonNames ELSE HtmlNames) \cup {FetchFailed}
    /\ g.age >= 0 => g.got = delivered[ResourceFor(g.layer, target)]

\* the entry under every key is the payload that the resource the key names
\* delivered last, and every answer is the one of the call run alone
CacheAgrees ==
    /\ \A f \in Resources :
          cache.val[KeyOf(f)] # NoEntry
            => /\ cache.val[KeyOf(f)] = delivered[f]
               /\ cache.val[KeyOf(f)] \in (IF f[1] = "json" THEN JsonNames ELSE HtmlNames)
    /\ \A c \in Calls : Answered(c)
          => calls[c].result = AloneResult(calls[c].target, calls[c].seen)

\* a step in which a fetch gives a call something gives it a payload of its
\* own resource
ReadsItsOwn ==
    \A c \in Calls : Len(calls'[c].seen) > Len(calls[c].seen)
                       => SawItsOwn(calls'[c].target, Last(calls'[c].seen))

\* C14: under any interleaving of concurrent calls the cache stays
\* consistent: the entry under a key holds the payload that the resource the
\* key names delivered last (last write wins, an HTML payload never answers
\* a JSON lookup, a failed fetch creates no entry), and each call answers as
\* it would when run alone against the same remote responses.
C14_CacheConsistent == []CacheAgrees /\ [][ReadsItsOwn]_vars

\* two calls were in flight for one resource, the remote answered them
\* differently, and the entry holds what it delivered last
C14_Witness ==
    \E c, d \in Calls :
        /\ c # d /\ Answered(c) /\ Answered(d)
        /\ calls[c].target = calls[d].target
        /\ calls[c].seen # <<>> /\ calls[d].seen # <<>>
        /\ Last(calls[c].seen).age = -1 /\ Last(calls[d].seen).age = -1
        /\ Last(calls[c].seen).layer = Last(calls[d].seen).layer
        /\ Last(calls[c].seen).got \notin {FetchFailed, Last(calls[d].seen).got}
        /\ Last(calls[d].seen).got # FetchFailed
        /\ cache.val[KeyOf(ResourceFor(Last(calls[d].seen).layer, calls[d].target))]
              = Last(calls[d].seen).got

\* the keys the cache holds
Held == {k \in CacheKeys : cache.val[k] # NoEntry}

\* the cache holds at most CacheMax entries, its recency order lists exactly
\* the keys it holds, and no fetch was served an entry older than the TTL
CacheBounded ==
    /\ Cardinality(Held) <= CacheMax
    /\ Len(cache.order) = Cardinality(Held)
    /\ \A i \in 1..Len(cache.order) : cache.order[i] \in Held
    /\ \A c \in Calls : \A i \in 1..Len(calls[c].seen) : calls[c].seen[i].age <= TtlTicks

\* an entry leaves the cache only when it is stale or the least recently
\* used one
OnlyStaleOrOldestLeave ==
    \A k \in CacheKeys : cache.val[k] # NoEntry /\ cache'.val[k] = NoEntry
                           => IsStale(cache, k) \/ k = Head(cache.order)

RemoteProviderNames == {JsonOf(n).provider_name : n \in JsonNames} \ {""}

\* oembed:<name> for a remote provider name
OEmbedProvider(name) ==
    CASE name = "Vimeo" -> "oembed:Vimeo"
      [] OTHER -> "oembed:<name>"

\* the closed enumeration of providers
ProviderEnum ==
    {"direct", "youtube", "vimeo", "instagram", "tiktok", "twitch",
     "dailymotion", "parsed", "unknown"}
    \cup {OEmbedProvider(name) : name \in RemoteProviderNames}

\* C16: the provider of every successful resolution is a member of the
\* closed enumeration direct, youtube, vimeo, instagram, tiktok, twitch,
\* dailymotion, oembed:<name>, parsed, unknown, on every path, the oEmbed
\* path included; it is never null.
C16_ProviderEnumeration ==
    /\ Resolved /\ last.result.ok => last.result.provider \in ProviderEnum
    /\ \A c \in Calls : Answered(c) /\ calls[c].result.ok
                          => calls[c].result.provider \in ProviderEnum

\* the envelope classifies u as a direct file exactly when u is one
DirectExactly(r, u) == r.ok => (r.provider = "direct" <=> IsDirectFileUrl(u))

\* C17: a URL is classified as a direct file exactly when its path ends,
\* in either case, in one of .mp4 .webm .ogg .mov .avi .mkv .m4v, whatever
\* its query string, and every resolver (resolveVideoUrl, getEmbedUrl, the
\* Express route, the Next.js handler) accepts the same seven extensions.
C17_DirectFileExactly ==
    /\ last.op = "resolveVideoUrl" => DirectExactly(last.result, SpecNormalize(input))
    /\ last.op = "getEmbedUrl" /\ ~last.threw /\ IsDirectInput(input) => last.value = input
    /\ last.op = "videoresolver" /\ ParseURL(SpecNormalize(input)).valid
        => DirectExactly(last.result, SpecNormalize(input))
    /\ \A c \in Calls : Answered(c) => DirectExactly(calls[c].result, calls[c].target)

\* a Twitch video URL: the one input on which the two resolvers may differ
IsTwitchVideoUrl(u) ==
    /\ HostnameIncludes(ParseURL(SpecNormalize(u)).hostname, "twitch.tv")
    /\ Includes(ParseURL(SpecNormalize(u)).pathname, <<"/", "videos", "/">>)

\* two envelopes give the same answer: ok flag, provider and embed URL
SameAnswer(r, q) ==
    /\ r.ok = q.ok
    /\ r.ok => r.provider = q.provider /\ r.embedUrl = q.embedUrl

\* C18: for every input URL that is not a Twitch video URL the /api/resolve
\* handler returns the same ok flag, the same provider and the same embed
\* URL as the client's resolveVideoUrl.
C18_ClientServerEquivalent ==
    \A c \in Calls : Answered(c) /\ ~IsTwitchVideoUrl(calls[c].target)
        => SameAnswer(calls[c].result, resolveVideoUrl(calls[c].target))

\* the URL object getEmbedUrl works on
EmbedUrlObj == ParseURL(NormalizeUrl(input))

\* the slug: the path segment that follows the videos segment
SlugOf(pathname) ==
    LET parts == SplitTok(pathname, "/")
        at == {i \in 1..Len(parts) - 1 : parts[i] = <<"videos">>}
    IN  IF at = {} THEN <<>> ELSE parts[Min(at) + 1]

\* the input has the form <origin>/videos/<slug>-<id>
IsVideosSlugInput ==
    /\ EmbedUrlObj.valid
    /\ ~EndsWithExt(ToLowerCase(EmbedUrlObj.pathname), VideoExtensions)
    /\ HasHyphen(SlugOf(EmbedUrlObj.pathname))

\* the input has the form <origin>/view_video.php?viewkey=X
IsViewkeyInput ==
    /\ EmbedUrlObj.valid
    /\ ~EndsWithExt(ToLowerCase(EmbedUrlObj.pathname), VideoExtensions)
    /\ ~Includes(EmbedUrlObj.pathname, <<"/", "videos", "/">>)
    /\ Includes(EmbedUrlObj.pathname, <<"/", "view_video", ".php">>)
    /\ Truthy(SearchGet(EmbedUrlObj.search, "viewkey="))

\* <origin>/embed/<id>
EmbedOf(id) == EmbedUrlObj.origin \o <<"/", "embed", "/">> \o id

\* C19: getEmbedUrl maps <origin>/videos/<slug>-<id> to <origin>/embed/<id>
\* with <id> the token after the last hyphen of the slug segment that
\* follows /videos/, also when an earlier path segment contains a hyphen,
\* and maps <origin>/view_video.php?viewkey=X to <origin>/embed/X.
C19_SiteRewrite ==
    last.op = "getEmbedUrl" /\ ~last.threw =>
        /\ IsVideosSlugInput
             => last.value = EmbedOf(AfterLastHyphen(SlugOf(EmbedUrlObj.pathname)))
        /\ IsViewkeyInput
             => last.value = EmbedOf(SearchGet(EmbedUrlObj.search, "viewkey="))

\* the content of the meta tag p of a page, by property or by name
MetaTag(doc, p) == IF Truthy(doc.prop[p]) THEN doc.prop[p] ELSE doc.name[p]

\* the embed URL candidate by the fixed priority
Candidate(doc) ==
    IF Truthy(MetaTag(doc, "og:video")) THEN MetaTag(doc, "og:video")
    ELSE IF Truthy(MetaTag(doc, "og:video:url")) THEN MetaTag(doc, "og:video:url")
    ELSE IF Truthy(MetaTag(doc, "twitter:player")) THEN MetaTag(doc, "twitter:player")
    ELSE IF doc.iframes # <<>> THEN doc.iframes[1]
    ELSE NullV

\* the video / source src values that end in a recognized extension
RecognizedMedia(doc) ==
    SelectSeq(doc.videos, LAMBDA src : EndsWithExt(ToLowerCase(src), VideoExtensions))

\* the call was answered from the page it scraped
Scraped(call) ==
    /\ call.seen # <<>>
    /\ Last(call.seen).layer = "html"
    /\ Last(call.seen).got \in HtmlNames

\* the answer carries the candidate and the media list of the page
CarriesScrapeOf(r, doc) ==
    IF Candidate(doc) = NullV /\ RecognizedMedia(doc) = <<>>
    THEN ~r.ok
    ELSE r.ok /\ r.embedUrl = Candidate(doc) /\ r.media = RecognizedMedia(doc)

\* C20: in the HTML scrape layer the embed URL candidate is the og:video
\* (or og:video:url) meta tag if present, otherwise the twitter:player meta
\* tag, otherwise the first iframe src in document order, otherwise none,
\* and the media list holds exactly the video / source src values that end
\* in a recognized direct-video extension.
C20_ScrapePriority ==
    \A c \in Calls : Answered(c) /\ Scraped(calls[c])
        => CarriesScrapeOf(calls[c].result, HtmlOf(Last(calls[c].seen).got))


\* the playlist component runs
PlaylistRuns == program \in {"playlist", "playlist:basic"}

\* a step of nextVideo, previousVideo or of a video-end message sets the
\* index one position on or back, around the ends of the list
PlaybackStep ==
    LET n == Len(ui.playlist)
        i == ui.currentVideoIndex
    IN  PlaylistRuns /\ HasCurrent(ui.playlist, i) =>
          /\ ui'.did.op = "nextVideo" => ui'.currentVideoIndex = (i + 1) % n
          /\ ui'.did.op = "previousVideo" => ui'.currentVideoIndex = (i - 1) % n
          /\ ui'.did.op = "handleMessage" /\ ui'.did.arg > 0
               => ui'.currentVideoIndex = (i + 1) % n

\* C21: playback is sequential with wrap-around: for a playlist of length
\* n > 0 and current index i, a position of the list, nextVideo (the skip button or a video-end
\* message) makes the index (i+1) mod n, previousVideo makes it (i-1) mod n,
\* and one video-end message moves the index by exactly one position even
\* when it matches several patterns of the handler.
C21_SequentialPlayback == [][PlaybackStep]_vars

\* C21: a message that matches two patterns was handled on a list of three
C21_Witness ==
    /\ ui.did = Did("handleMessage", 2)
    /\ Len(ui.playlist) = 3
    /\ ui.currentVideoIndex = 2

\* the current index is a position of the playlist, 0 for the empty one
IndexValid ==
    IF ui.playlist = <<>> THEN ui.currentVideoIndex = 0
    ELSE ui.currentVideoIndex \in 0..Len(ui.playlist) - 1

\* C22: in every reachable state of the playlist component, after any
\* sequence of add, bulk add, remove, reorder (a drag that ends over no
\* item included), play, next, previous, clear and load operations, the
\* current index is valid: 0 when the playlist is empty, otherwise
\* 0 <= currentVideoIndex < playlist.length.
C22_IndexValid == PlaylistRuns => IndexValid

\* the id of the current item is the same before and after the step
SameCurrent ==
    /\ HasCurrent(ui'.playlist, ui'.currentVideoIndex)
    /\ currentVideo(ui'.playlist, ui'.currentVideoIndex).id
         = currentVideo(ui.playlist, ui.currentVideoIndex).id

\* the step removed an item other than the current one
RemovedAnother ==
    /\ ui'.did.op = "removeVideo"
    /\ currentVideo(ui.playlist, ui.currentVideoIndex).id \in Ids(ui'.playlist)

\* the step moved an item from one position of the list to another
Reordered ==
    \/ ui'.did.op = "moveVideo"
    \/ ui'.did = Did("handleDragEnd", 1)

\* an edit of the list keeps the current video
EditKeepsCurrent ==
    PlaylistRuns /\ HasCurrent(ui.playlist, ui.currentVideoIndex)
                 /\ (RemovedAnother \/ Reordered)
        => SameCurrent

\* C23: editing the list does not change which video is current:
\* removeVideo of an item other than the current one, and every reorder
\* (moveVideo or handleDragEnd) between two valid positions, leave the id of
\* the item at currentVideoIndex as it was before the operation.
C23_EditKeepsCurrent == [][EditKeepsCurrent]_vars

\* the item resolveAndAdd appended from a successful result is played from
\* its own URL: getEmbedUrl, which computes the src of the player frame,
\* returns the URL of the item
FrameSrcIsItemUrl ==
    program = "playlist" /\ ui'.did = Did("resolveAndAdd", 1)
        => LET item == Last(ui'.playlist)
           IN  getEmbedUrl(item.url) = [threw |-> FALSE, value |-> item.url]

\* C24: the URL the resolver produced is the URL that is played: for every
\* input that resolveVideoUrl resolves with ok, the URL stored in the item
\* (result.embed.url, else the first media URL, else the input) is returned
\* unchanged by getEmbedUrl when the frame src is computed.
C24_ResolvedUrlIsPlayed == [][FrameSrcIsItemUrl]_vars

\* a call of resolveAndAdd that ended leaves the playlist, the index and
\* the playing flag alone when resolveVideoUrl answered ok = false, and
\* appends exactly one item, the index unchanged, when it answered ok
SettledCall ==
    /\ program = "playlist" /\ ui'.did = Did("resolveAndAdd", 0)
         => /\ ui'.playlist = ui.playlist
            /\ ui'.currentVideoIndex = ui.currentVideoIndex
            /\ ui'.isPlaying = ui.isPlaying
    /\ program = "playlist" /\ ui'.did = Did("resolveAndAdd", 1)
         => /\ Len(ui'.playlist) = Len(ui.playlist) + 1
            /\ SubSeq(ui'.playlist, 1, Len(ui.playlist)) = ui.playlist
            /\ ui'.currentVideoIndex = ui.currentVideoIndex

DistinctIds == Cardinality(Ids(ui.playlist)) = Len(ui.playlist)

\* a step of removeVideo takes exactly one item out
RemovesOne ==
    PlaylistRuns /\ ui'.did.op = "removeVideo"
        => Len(ui'.playlist) = Len(ui.playlist) - 1

\* C27: the items of the playlist have pairwise distinct ids whatever the
\* timing of the additions (two adds in the same millisecond, a bulk add
\* followed by a single add), so that removeVideo(id) removes exactly one
\* item.
C27_DistinctIds == [](PlaylistRuns => DistinctIds) /\ [][RemovesOne]_vars

\* what localStorage holds under 'playlist-creator-current' is the name and
\* the videos of the component's state
SavedTracksMemory ==
    program = "playlist" /\ Shown
        => ui.stored = Stored(ui.currentPlaylistName, ui.playlist)

\* the render after the mount shows the stored videos and name
RestoresOnMount ==
    program = "playlist" /\ ui'.did.op = "render"
        => /\ ui'.playlist = ui.restore.videos
           /\ ui'.currentPlaylistName = ui.restore.name

\* a non-empty playlist that localStorage held when the component mounted
\* is in localStorage or in the component's state at every later moment the
\* page can close at
KeptWhenPageCloses ==
    program = "playlist" /\ ui'.did.op = "close" /\ ui.phase = "restoring"
                         /\ ui.restore.videos # <<>>
        => ui'.stored.videos = ui.restore.videos

\* C28: the current playlist survives a reload: the value stored under
\* 'playlist-creator-current' equals { name, videos } of the state once the
\* effects have run, a mount restores the stored videos and name, and the
\* auto-save of the initial empty playlist never makes a stored non-empty
\* playlist be lost.
C28_SurvivesReload ==
    /\ []SavedTracksMemory
    /\ [][RestoresOnMount]_vars
    /\ [][KeptWhenPageCloses]_vars

\* the items the present bulk add or import has appended so far, in the
\* order they stand in the playlist
BulkItems ==
    SelectSeq(ui.playlist,
              LAMBDA v : \E k \in 1..Len(ui.batchAdded) : ui.batchAdded[k] = v.id)

\* every URL of the list resolves
AllResolve(urls) == \A k \in 1..Len(urls) : resolveVideoUrl(urls[k]).ok

\* no call of the present bulk add or import is scheduled or waiting
BulkDone ==
    /\ ui.timers = <<>>
    /\ \A k \in 1..Len(ui.inflight) : ui.inflight[k].from # "bulk"

\* the k-th item the bulk add appended comes from its k-th line
FromLine(item, url) ==
    item.url \in {UsableUrl(resolveVideoUrl(url), url), url}

Submitted(u) == IF program = "playlist" THEN u.timers ELSE Urls(u.playlist)

\* an import of the exported file into an empty playlist submits the
\* exported URLs
RoundTrip ==
    PlaylistRuns /\ ui'.did.op = "import" /\ ui.playlist = <<>> /\ NothingPending
        => Submitted(ui') = ui.exported

\* C29: export and import round-trip: the file exportPlaylistAsText or
\* exportPlaylistAsM3U8 wrote, imported into an empty playlist, makes the
\* import submit exactly the exported URLs, each once and in their order,
\* and never a title or numbering line as a URL.
C29_ExportImportRoundTrip == [][RoundTrip]_vars

=============================================================================
